---- MODULE Spec2Model ----
(***************************************************************************)
(* A model of the backsplash pattern generator (tile-generator: the        *)
(* Randomizer, colourDispenser, rotate, RowGenerator, TileGenerator and    *)
(* generateRows) and of the layout engine (geometry: TileRect, layout).    *)
(*                                                                         *)
(* The seeded random stream of the seedrandom library is a fixed function  *)
(* of the seed and of the number of draws already taken from it: draw      *)
(* number pos of seed s is Int32(s, pos).  A Randomizer is the record      *)
(* [seed, pos]; every operation that draws returns the advanced record.    *)
(***************************************************************************)
EXTENDS Integers, Sequences, FiniteSets, TLC

\* ------------------------------------------------------------------ bounds
MaxSeed == 3
MaxRows == 3
MaxColumns == 4
MaxRotation == 4
MaxComplexity == 2
MaxGroupSize == 3
GridSteps == 3
MaxOffset == 3
MaxHoles == 1
PaletteSize == 2
MaxWeightSteps == 1

VARIABLES
  model,      \* the TileParametersModel record of the application state
  rnd,        \* the Randomizer of the latest generateRows call: [seed, pos]
  outcome,    \* how that call ended: "none" (not called yet), "rows" or "error"
  rows,       \* the TileRow array it returned (top to bottom)
  rowLog,     \* per row in generation order: palette, colours, dispensed, tiles
  prev,       \* the call before it: [model, outcome, rows, rowLog]
  magnification,  \* the zoom of the Backsplash page, in percent
  tileMap,    \* the tile map of TileCanvas: the rectangle of every painted tile
  ref,        \* which object the state of the store is: the identity of model
  undoStack,  \* the undoStack of the UndoContext: state objects [ref, params]
  redoStack,  \* the redoStack of the UndoContext
  canUndo,    \* the canUndo state of useUndoRedo
  canRedo,    \* the canRedo state of useUndoRedo
  pending,    \* the debounced pushUndo: <<>>, or <<the state of its last call>>
  gestureAnchor,  \* the anchor of the TileSelectionManager: a tile, or NoHit
  gestureHead     \* the head of the TileSelectionManager: a tile, or NoHit

\* the variables of useUndoRedo and of the TileSelectionManager
undoVars == <<ref, undoStack, redoStack, canUndo, canRedo, pending>>
gestureVars == <<gestureAnchor, gestureHead>>

vars == <<model, rnd, outcome, rows, rowLog, prev, magnification, tileMap,
          undoVars, gestureVars>>

\* undefined, as the anchor and head of a selection; a Hit is <<its tile>>
NoHit == <<>>

\* the hook and the selection manager before anything was done with them
UndoIdle ==
  /\ ref = 0
  /\ undoStack = <<>>
  /\ redoStack = <<>>
  /\ canUndo = FALSE
  /\ canRedo = FALSE
  /\ pending = <<>>

GestureIdle ==
  /\ gestureAnchor = NoHit
  /\ gestureHead = NoHit

\* ------------------------------------------------------------- sequences
Min(a, b) == IF a < b THEN a ELSE b
Max(a, b) == IF a > b THEN a ELSE b
Abs(n) == IF n < 0 THEN -n ELSE n

\* Array.prototype.slice(from, to) on 0-based indexes with 0 <= from
Slice(items, from, to) ==
  SubSeq(items, from + 1, Min(to, Len(items)))

\* the array without its element at 0-based index at (splice(at, 1))
RemoveAt(items, at) ==
  SubSeq(items, 1, at) \o SubSeq(items, at + 2, Len(items))

Includes(items, x) == \E k \in 1..Len(items) : items[k] = x

\* ------------------------------------------------------------ Randomizer
NoColour == "undefined"

\* seedrandom's int32(): draw number pos of the stream of the seed, signed
Int32(seed, pos) ==
  (((seed * 7 + 3) * (pos * pos + 5 * pos + 11) + seed * seed * 13 + pos * 17) % 61) - 30

\* seedrandom's double in [0, 1), as the numerator over RealDen
RealDen == 16
Real(seed, pos) ==
  ((seed * 5 + 1) * (pos * pos + 3 * pos + 7) + seed * 11 + pos * 3) % RealDen

\* a Randomizer shared by all calls: it goes on where the last call stopped
RandomizerShared(seed) == [seed |-> seed, pos |-> rnd.pos]

\* new Randomizer(seed)
Randomizer(seed) == [seed |-> seed, pos |-> 0]

\* Randomizer.nextInt
nextInt(r) == [val |-> Abs(Int32(r.seed, r.pos)), rnd |-> [r EXCEPT !.pos = @ + 1]]

\* Randomizer.next
next(r) == [val |-> Real(r.seed, r.pos), rnd |-> [r EXCEPT !.pos = @ + 1]]

RECURSIVE shuffleLoop(_, _, _)
shuffleLoop(supply, out, r) ==
  IF Len(supply) > 1
  THEN LET d == nextInt(r)
           nxt == d.val % Len(supply)
       IN shuffleLoop(RemoveAt(supply, nxt), Append(out, supply[nxt + 1]), d.rnd)
  ELSE [val |-> Append(out, supply[1]), rnd |-> r]

\* a shuffle that draws for the last item as well
shuffleDrawingAll(items, r) ==
  IF Len(items) = 0 THEN [val |-> items, rnd |-> r]
  ELSE LET drawn(s) == [val |-> s.val, rnd |-> nextInt(s.rnd).rnd]
       IN drawn(shuffleLoop(items, <<>>, r))

\* Randomizer.shuffle
shuffle(items, r) ==
  IF Len(items) = 0 THEN [val |-> items, rnd |-> r]
  ELSE shuffleLoop(items, <<>>, r)

\* the weight a criterion is multiplied by, as a fraction: weights[item] ?? average
weightOf(item, weights) ==
  LET hit == {k \in 1..Len(weights) : weights[k].name = item}
      RECURSIVE sum(_)
      sum(k) == IF k = 0 THEN 0 ELSE weights[k].weight + sum(k - 1)
  IN IF hit # {}
     THEN [num |-> weights[CHOOSE k \in hit : TRUE].weight, den |-> 1]
     ELSE [num |-> sum(Len(weights)), den |-> Len(weights)]

\* a < b for two criteria -next() * weight, each a fraction num / den
criterionLess(a, b) == a.num * b.den < b.num * a.den

RECURSIVE insertSorted(_, _, _)
insertSorted(sorted, j, keys) ==
  IF sorted = <<>> THEN <<j>>
  ELSE IF criterionLess(keys[j], keys[Head(sorted)]) THEN <<j>> \o sorted
  ELSE <<Head(sorted)>> \o insertSorted(Tail(sorted), j, keys)

\* lodash sortBy: a stable ascending sort of the indexes 1..n by their criteria
RECURSIVE sortBy(_, _)
sortBy(n, keys) ==
  IF n = 0 THEN <<>> ELSE insertSorted(sortBy(n - 1, keys), n, keys)

\* Randomizer.weightedShuffle: one next() per item, in item order
weightedShuffle(items, weights, r) ==
  LET keys == [k \in 1..Len(items) |->
                 LET w == weightOf(items[k], weights)
                 IN [num |-> -(Real(r.seed, r.pos + k - 1) * w.num), den |-> RealDen * w.den]]
      order == sortBy(Len(items), keys)
  IN [val |-> [k \in 1..Len(items) |-> items[order[k]]],
      rnd |-> [r EXCEPT !.pos = @ + Len(items)]]

\* -------------------------------------------------------- colourDispenser
\* the generator object right after colourDispenser(colours, rnd) is called
colourDispenser(colours, r) ==
  [colours |-> colours, group |-> <<>>, lastColour |-> NoColour, i |-> 0, rnd |-> r]

\* a new group whose first colour is overwritten instead of moved to the back
newGroupOverwriting(d) ==
  LET s == shuffle(d.colours, d.rnd)
      g == s.val
  IN [val |-> IF Len(g) > 1 /\ g[1] = d.lastColour THEN Tail(g) \o <<g[2]>> ELSE g,
      rnd |-> s.rnd]

\* a new group left as it was shuffled
newGroupUnswapped(d) == shuffle(d.colours, d.rnd)

\* the group a dispenser starts at i % colourCount === 0
newGroup(d) ==
  LET s == shuffle(d.colours, d.rnd)
      g == s.val
  IN [val |-> IF g # <<>> /\ g[1] = d.lastColour THEN Tail(g) \o <<g[1]>> ELSE g,
      rnd |-> s.rnd]

\* one pull of a generator without assertExists: what shift gives is yielded
\* as it is, a missing colour as the colour "missing"
dispenserNextUnchecked(d) ==
  LET colourCount == Len(d.colours)
      fresh == colourCount # 0 /\ d.i % colourCount = 0
      shifted(ng) ==
        LET colour == IF ng.val = <<>> THEN "missing" ELSE Head(ng.val)
        IN [val |-> colour,
            gen |-> [d EXCEPT !.group = IF ng.val = <<>> THEN <<>> ELSE Tail(ng.val),
                              !.lastColour = colour,
                              !.rnd = ng.rnd,
                              !.i = @ + 1]]
  IN shifted(IF fresh THEN newGroup(d) ELSE [val |-> d.group, rnd |-> d.rnd])

\* one pull of the generator: val is the colour yielded, or NoColour when
\* assertExists throws; gen is the generator afterwards
dispenserNext(d) ==
  LET colourCount == Len(d.colours)
      fresh == colourCount # 0 /\ d.i % colourCount = 0
      shifted(ng) ==
        LET colour == IF ng.val = <<>> THEN NoColour ELSE Head(ng.val)
        IN [val |-> colour,
            gen |-> [d EXCEPT !.group = IF ng.val = <<>> THEN <<>> ELSE Tail(ng.val),
                              !.lastColour = colour,
                              !.rnd = ng.rnd,
                              !.i = @ + 1]]
  IN shifted(IF fresh THEN newGroup(d) ELSE [val |-> d.group, rnd |-> d.rnd])

\* a rotation to the left by the same number of places
rotateLeft(items, places) ==
  IF places = 0 THEN items
  ELSE LET start == Min(places, Len(items))
       IN SubSeq(items, start + 1, Len(items)) \o SubSeq(items, 1, start)

\* rotate(items, places): splice(length - places) takes the tail from that
\* index, a negative index counting from the end and clamped at 0
rotate(items, places) ==
  IF places = 0 THEN items
  ELSE LET raw == Len(items) - places
           start == IF raw < 0 THEN Max(Len(items) + raw, 0) ELSE Min(raw, Len(items))
       IN SubSeq(items, start + 1, Len(items)) \o SubSeq(items, 1, start)

\* ------------------------------------------------------------ RowGenerator
\* TileGenerator constructor: the weights of the enabled colours, in the order
\* of the colour model (the key order of the colourWeights object)
colourWeightsOf(m) ==
  LET enabled == SelectSeq(m.colourModel, LAMBDA c : c.enabled)
  IN [k \in 1..Len(enabled) |-> [name |-> enabled[k].name, weight |-> enabled[k].weight]]

\* TileGenerator constructor: the names of the enabled favourite colours
favouritesOf(m) ==
  LET favs == SelectSeq(m.colourModel, LAMBDA c : c.enabled /\ c.favourite)
  IN [k \in 1..Len(favs) |-> favs[k].name]

\* Object.keys(colourWeights)
keysOf(weights) == [k \in 1..Len(weights) |-> weights[k].name]

\* the base palette with the other colours put before the favourites
baseColourSupplierOthersFirst(m, r) ==
  LET favourites == favouritesOf(m)
      colours == SelectSeq(keysOf(colourWeightsOf(m)), LAMBDA c : ~Includes(favourites, c))
      f == shuffle(favourites, r)
      o == shuffle(colours, f.rnd)
  IN [val |-> Slice(o.val \o f.val, 0, m.groupSize), rnd |-> o.rnd]

\* the base colourSupplier: shuffled favourites, then the shuffled other
\* colours, cut to groupSize
baseColourSupplier(m, r) ==
  LET favourites == favouritesOf(m)
      colours == SelectSeq(keysOf(colourWeightsOf(m)), LAMBDA c : ~Includes(favourites, c))
      f == shuffle(favourites, r)
      o == shuffle(colours, f.rnd)
  IN [val |-> Slice(f.val \o o.val, 0, m.groupSize), rnd |-> o.rnd]

\* a duplicate count taken modulo one more than the complexity
dupeCountInclusive(m, draw) == (draw % (m.complexity + 1)) % m.groupSize

\* the number of duplicates a row adds to its base palette
dupeCount(m, draw) == (draw % m.complexity) % m.groupSize

\* the colourSupplier of the RowGenerator: the base palette, and with
\* complexity > 0 the random duplicates appended to it
colourSupplier(m, r) ==
  LET duplicated(base) ==
        LET d == nextInt(base.rnd)
            sorted == weightedShuffle(base.val, colourWeightsOf(m), d.rnd)
        IN [val |-> base.val \o Slice(sorted.val, 0, dupeCount(m, d.val)),
            palette |-> base.val, rnd |-> sorted.rnd]
      supplied(base) ==
        IF m.complexity > 0
        THEN duplicated(base)
        ELSE [val |-> base.val, palette |-> base.val, rnd |-> base.rnd]
  IN supplied(baseColourSupplier(m, r))

\* a 0-based column key
columnKeyZeroBased(m, pos) == (pos + m.rotation) % m.columnCount

\* the key of the tile dispensed at 0-based position pos
columnKey(m, pos) == ((pos + m.rotation) % m.columnCount) + 1

\* a row that stops one tile late
rowDoneLate(m, n) == n > m.columnCount

\* the break of the for-of loop, n tiles being in the row
rowDone(m, n) == n >= m.columnCount

\* the for-of loop of generateRow: pull, stop at columnCount, push the tile
RECURSIVE rowLoop(_, _, _, _, _)
rowLoop(m, rowKey, d, row, dispensed) ==
  LET pulled(p) ==
        IF p.val = NoColour
        THEN [error |-> TRUE, row |-> row, dispensed |-> dispensed, rnd |-> p.gen.rnd]
        ELSE IF rowDone(m, Len(row))
        THEN [error |-> FALSE, row |-> row, dispensed |-> Append(dispensed, p.val),
              rnd |-> p.gen.rnd]
        ELSE rowLoop(m, rowKey, p.gen,
                     Append(row, [key |-> columnKey(m, Len(row)), row |-> rowKey, colour |-> p.val]),
                     Append(dispensed, p.val))
  IN pulled(dispenserNext(d))

\* RowGenerator.generateRow: the row, the advanced Randomizer, and what the
\* call went through (the base palette, the colour list fed to the dispenser,
\* every colour pulled from it, the tiles in dispensing order)
generateRow(m, rowKey, r) ==
  LET looped(cs, loop) ==
        [error |-> loop.error,
         row |-> [key |-> rowKey, columns |-> rotate(loop.row, m.rotation)],
         rnd |-> loop.rnd,
         log |-> [palette |-> cs.palette, colours |-> cs.val,
                  dispensed |-> loop.dispensed, tiles |-> loop.row]]
      supplied(cs) ==
        looped(cs, rowLoop(m, rowKey, colourDispenser(cs.val, cs.rnd), <<>>, <<>>))
  IN supplied(colourSupplier(m, r))

\* Array.prototype.push in its place
push(result, row) == Append(result, row)

\* Array.prototype.unshift of TileGenerator.generate
unshift(result, row) == <<row>> \o result

\* ----------------------------------------------------------- TileGenerator
\* the loop of RowGenerator.generateRows feeding TileGenerator.generate:
\* rows are generated for i = rowCount down to 1 and each is unshifted
RECURSIVE generateLoop(_, _, _, _, _)
generateLoop(m, i, r, result, log) ==
  IF i >= 1
  THEN LET yielded(g) ==
             IF g.error
             THEN [error |-> TRUE, rows |-> <<>>, rnd |-> g.rnd, log |-> Append(log, g.log)]
             ELSE generateLoop(m, i - 1, g.rnd, unshift(result, g.row), Append(log, g.log))
       IN yielded(generateRow(m, i, r))
  ELSE [error |-> FALSE, rows |-> result, rnd |-> r, log |-> log]

\* rows generated from the top down, i = 1 up to rowCount, each one pushed
RECURSIVE generateLoopTopDown(_, _, _, _, _)
generateLoopTopDown(m, i, r, result, log) ==
  IF i <= m.rowCount
  THEN LET yielded(g) ==
             IF g.error
             THEN [error |-> TRUE, rows |-> <<>>, rnd |-> g.rnd, log |-> Append(log, g.log)]
             ELSE generateLoopTopDown(m, i + 1, g.rnd, Append(result, g.row), Append(log, g.log))
       IN yielded(generateRow(m, i, r))
  ELSE [error |-> FALSE, rows |-> result, rnd |-> r, log |-> log]

generateRowsTopDown(m) == generateLoopTopDown(m, 1, Randomizer(m.seed), <<>>, <<>>)

\* generateRows(state): a new TileGenerator with a new Randomizer of the seed
generateRows(m) == generateLoop(m, m.rowCount, Randomizer(m.seed), <<>>, <<>>)

\* ----------------------------------------------------------------- TileRect
\* Pixel lengths are fractions.  A layout keeps every length as an integer
\* number of units, one pixel being Den(L) = 100 * offset units, which makes
\* basisPx = 16 * magnification / 100 and every step of basisPx * amount *
\* k / offset whole.  The midpoints of a rectangle are kept doubled.
NullRect == [null |-> TRUE]

TileRect(x, y, width, height) == [x |-> x, y |-> y, width |-> width, height |-> height]

left(r) == r.x
top(r) == r.y
right(r) == r.x + r.width
bottom(r) == r.y + r.height

\* the four edge midpoints, both coordinates doubled
leftMiddle(r) == [x |-> 2 * left(r), y |-> 2 * top(r) + r.height]
topMiddle(r) == [x |-> 2 * left(r) + r.width, y |-> 2 * top(r)]
rightMiddle(r) == [x |-> 2 * right(r), y |-> 2 * top(r) + r.height]
bottomMiddle(r) == [x |-> 2 * left(r) + r.width, y |-> 2 * bottom(r)]

\* TileRect.contains, of a point with doubled coordinates
contains(r, point) ==
  /\ point.x >= 2 * left(r)
  /\ point.x <= 2 * right(r)
  /\ point.y >= 2 * top(r)
  /\ point.y <= 2 * bottom(r)

\* TileRect.union
union(r, other) ==
  LET l == Min(left(r), left(other))
      t == Min(top(r), top(other))
      rt == Max(right(r), right(other))
      b == Max(bottom(r), bottom(other))
  IN TileRect(l, t, rt - l, b - t)

\* an edge is pulled in as soon as other contains its own midpoint
trimmedByOwnMidpoint(r, other) ==
  LET edges(l, t, rt, b) ==
        [left |-> IF l THEN Max(left(r), right(other)) ELSE left(r),
         top |-> IF t THEN Max(top(r), bottom(other)) ELSE top(r),
         right |-> IF rt THEN Min(right(r), left(other)) ELSE right(r),
         bottom |-> IF b THEN Min(bottom(r), top(other)) ELSE bottom(r)]
  IN edges(contains(other, leftMiddle(r)), contains(other, topMiddle(r)),
           contains(other, rightMiddle(r)), contains(other, bottomMiddle(r)))

\* an edge is pulled in when other contains its midpoint and the midpoint of
\* one of the two adjacent edges
trimmedAtCorner(r, other) ==
  LET edges(l, t, rt, b) ==
        [left |-> IF l /\ (t \/ b) THEN Max(left(r), right(other)) ELSE left(r),
         top |-> IF t /\ (l \/ rt) THEN Max(top(r), bottom(other)) ELSE top(r),
         right |-> IF rt /\ (t \/ b) THEN Min(right(r), left(other)) ELSE right(r),
         bottom |-> IF b /\ (l \/ rt) THEN Min(bottom(r), top(other)) ELSE bottom(r)]
  IN edges(contains(other, leftMiddle(r)), contains(other, topMiddle(r)),
           contains(other, rightMiddle(r)), contains(other, bottomMiddle(r)))

\* the four edges TileRect.intersect settles on
trimmed(r, other) ==
  \* l, t, rt, b: other contains the left, top, right, bottom midpoint of r
  LET edges(l, t, rt, b) ==
        [left |-> IF l /\ t /\ b THEN Max(left(r), right(other)) ELSE left(r),
         top |-> IF t /\ l /\ rt THEN Max(top(r), bottom(other)) ELSE top(r),
         right |-> IF rt /\ t /\ b THEN Min(right(r), left(other)) ELSE right(r),
         bottom |-> IF b /\ l /\ rt THEN Min(bottom(r), top(other)) ELSE bottom(r)]
  IN edges(contains(other, leftMiddle(r)), contains(other, topMiddle(r)),
           contains(other, rightMiddle(r)), contains(other, bottomMiddle(r)))

\* the part of r that other overlaps
intersectOverlapping(r, other) ==
  LET e == [left |-> Max(left(r), left(other)), top |-> Max(top(r), top(other)),
            right |-> Min(right(r), right(other)), bottom |-> Min(bottom(r), bottom(other))]
  IN IF e.left >= e.right \/ e.top >= e.bottom THEN NullRect
     ELSE IF e.left = left(r) /\ e.top = top(r) /\ e.right = right(r) /\ e.bottom = bottom(r)
     THEN r
     ELSE TileRect(e.left, e.top, e.right - e.left, e.bottom - e.top)

\* TileRect.intersect: what is left of r once other is cut off it
intersect(r, other) ==
  LET e == trimmed(r, other)
  IN IF e.left >= e.right \/ e.top >= e.bottom THEN NullRect
     ELSE IF e.left = left(r) /\ e.top = top(r) /\ e.right = right(r) /\ e.bottom = bottom(r)
     THEN r
     ELSE TileRect(e.left, e.top, e.right - e.left, e.bottom - e.top)

\* ------------------------------------------------------------------- layout
\* L is the argument list of layout: [basisFactor, magnification, model, rows]
Den(L) == 100 * L.model.offset

\* basisPx, in units
basisPx(L) == 16 * L.magnification * L.model.offset

\* groutPx = 2, in units
groutPx(L) == 2 * Den(L)

\* the width of a block of columns cells without its grout
spanX(L, columns) ==
  IF L.model.aspectRatio < 0 THEN columns * basisPx(L)
  ELSE columns * basisPx(L) * L.model.aspectRatio * L.basisFactor

\* the height of a block of rows cells without its grout
spanY(L, rowz) ==
  IF L.model.aspectRatio > 0 THEN rowz * basisPx(L)
  ELSE -rowz * basisPx(L) * L.model.aspectRatio * L.basisFactor

\* measure(rows, columns, inside)
measure(L, rowz, columns, inside) ==
  LET groutX == (columns + (IF inside THEN -1 ELSE 1)) * groutPx(L)
      groutY == (rowz + (IF inside THEN -1 ELSE 1)) * groutPx(L)
  IN [width |-> spanX(L, columns) + groutX, height |-> spanY(L, rowz) + groutY]

cellSize(L) == measure(L, 1, 1, TRUE)

\* a step counted by the position of a cell along its own line: the column
\* in a horizontal layout, the row in a vertical one
stepOfAcross(L, row, column) ==
  LET m == L.model
      amount == IF m.orientation = "vertical"
                THEN (IF m.aspectRatio > 0 THEN 1 ELSE -m.aspectRatio * L.basisFactor)
                ELSE (IF m.aspectRatio > 0 THEN m.aspectRatio * L.basisFactor ELSE 1)
      index == IF m.orientation = "vertical" THEN row - 1 ELSE column - 1
      direction == IF m.stepDirection = "right" \/ m.offset <= 2 THEN -1 ELSE 1
      unit == (basisPx(L) * amount) \div m.offset
  IN IF m.stepAlternate \/ m.offset <= 2
     THEN (IF index % 2 = 1 THEN direction * unit ELSE 0)
     ELSE LET modularOffset ==
                (index % m.offset) - (IF m.stepDirection = "right" THEN 0 ELSE m.offset - 1)
          IN direction * unit * modularOffset

\* the step of a cell along the stepping axis, in units: what locateCell adds
\* to x (horizontal) or y (vertical) when offset > 1
stepOf(L, row, column) ==
  LET m == L.model
      amount == IF m.orientation = "vertical"
                THEN (IF m.aspectRatio > 0 THEN 1 ELSE -m.aspectRatio * L.basisFactor)
                ELSE (IF m.aspectRatio > 0 THEN m.aspectRatio * L.basisFactor ELSE 1)
      index == IF m.orientation = "vertical" THEN column - 1 ELSE row - 1
      direction == IF m.stepDirection = "right" \/ m.offset <= 2 THEN -1 ELSE 1
      \* basisPx * amount / offset, in units
      unit == (basisPx(L) * amount) \div m.offset
  IN IF m.stepAlternate \/ m.offset <= 2
     THEN (IF index % 2 = 1 THEN direction * unit ELSE 0)
     ELSE LET modularOffset ==
                (index % m.offset) - (IF m.stepDirection = "right" THEN 0 ELSE m.offset - 1)
          IN direction * unit * modularOffset

\* the rectangle of a cell as the step leaves it, nothing cut at the origin
steppedCell(L, row, column, inside) ==
  LET m == L.model
      width0 == cellSize(L).width + (IF inside THEN 0 ELSE 2 * groutPx(L))
      height0 == cellSize(L).height + (IF inside THEN 0 ELSE 2 * groutPx(L))
      x0 == (column - 1) * cellSize(L).width + (IF inside THEN column ELSE column - 1) * groutPx(L)
      y0 == (row - 1) * cellSize(L).height + (IF inside THEN row ELSE row - 1) * groutPx(L)
  IN IF m.offset > 1 /\ m.orientation = "horizontal"
     THEN TileRect(x0 + stepOf(L, row, column), y0, width0, height0)
     ELSE IF m.offset > 1
          THEN TileRect(x0, y0 + stepOf(L, row, column), width0, height0)
          ELSE TileRect(x0, y0, width0, height0)

\* locateCell(row, column, inside)
locateCell(L, row, column, inside) ==
  LET m == L.model
      tileX == column - 1
      tileY == row - 1
      width0 == cellSize(L).width + (IF inside THEN 0 ELSE 2 * groutPx(L))
      height0 == cellSize(L).height + (IF inside THEN 0 ELSE 2 * groutPx(L))
      x0 == tileX * cellSize(L).width + (IF inside THEN column ELSE tileX) * groutPx(L)
      y0 == tileY * cellSize(L).height + (IF inside THEN row ELSE tileY) * groutPx(L)
  IN IF m.offset > 1
     THEN IF m.orientation = "horizontal"
          THEN LET x1 == x0 + stepOf(L, row, column)
               IN IF x1 < groutPx(L)
                  THEN TileRect(IF inside THEN groutPx(L) ELSE 0, y0,
                                width0 - (IF inside THEN groutPx(L) - x1 ELSE -x1), height0)
                  ELSE TileRect(x1, y0, width0, height0)
          ELSE LET y1 == y0 + stepOf(L, row, column)
               IN IF y1 < groutPx(L)
                  THEN TileRect(x0, IF inside THEN groutPx(L) ELSE 0, width0,
                                height0 - (IF inside THEN groutPx(L) - y1 ELSE -y1))
                  ELSE TileRect(x0, y1, width0, height0)
     ELSE TileRect(x0, y0, width0, height0)

\* the area from the left top corner of the first cell to the right bottom
\* corner of the second
locateSpan(L, row, column, toRow, toColumn, inside) ==
  LET span(start, end) ==
        TileRect(left(start), top(start), right(end) - left(start), bottom(end) - top(start))
  IN span(locateCell(L, row, column, inside), locateCell(L, toRow, toColumn, inside))

\* locate(row, column, toRow, toColumn, inside)
locate(L, row, column, toRow, toColumn, inside) ==
  union(locateCell(L, row, column, inside), locateCell(L, toRow, toColumn, inside))

\* locateHole(hole)
locateHole(L, hole) ==
  locate(L, hole.startRow, hole.startColumn, hole.endRow, hole.endColumn, TRUE)

SetMax(S) == CHOOSE n \in S : \A o \in S : o <= n
SetMin(S) == CHOOSE n \in S : \A o \in S : n <= o

\* the canvasSize and canvasCrop of a layout: with offset > 1 the ragged edge
\* along the stepping axis is cut off the canvas and becomes crop rectangles
canvas(L) ==
  LET m == L.model
      fullCanvas == measure(L, m.rowCount, m.columnCount, FALSE)
      n == Len(L.rows)
  IN IF m.offset > 1
     THEN IF m.orientation = "horizontal"
          THEN LET l == SetMax({0} \cup
                          {left(locateCell(L, L.rows[j].columns[1].row,
                                           L.rows[j].columns[1].key, FALSE)) : j \in 1..n})
                   r == SetMin({fullCanvas.width} \cup
                          {right(locateCell(L, L.rows[j].columns[Len(L.rows[j].columns)].row,
                                            L.rows[j].columns[Len(L.rows[j].columns)].key,
                                            FALSE)) : j \in 1..n})
                   canvasSize == [fullCanvas EXCEPT !.width = r - l]
               IN [canvasSize |-> canvasSize,
                   canvasCrop |-> [null |-> FALSE, rects |->
                     (IF l > 0 THEN <<TileRect(0, 0, l, fullCanvas.height)>> ELSE <<>>)
                     \o (IF r < fullCanvas.width
                         THEN <<TileRect(r, 0, fullCanvas.width - r, canvasSize.height)>>
                         ELSE <<>>)]]
          ELSE LET first == L.rows[1].columns
                   last == L.rows[n].columns
                   t == SetMax({0} \cup
                          {top(locateCell(L, first[c].row, first[c].key, FALSE)) :
                             c \in 1..Len(first)})
                   b == SetMin({fullCanvas.height} \cup
                          {bottom(locateCell(L, last[c].row, last[c].key, FALSE)) :
                             c \in 1..Len(last)})
                   canvasSize == [fullCanvas EXCEPT !.height = b - t]
               IN [canvasSize |-> canvasSize,
                   canvasCrop |-> [null |-> FALSE, rects |->
                     (IF t > 0 THEN <<TileRect(0, 0, fullCanvas.width, t)>> ELSE <<>>)
                     \o (IF b < fullCanvas.height
                         THEN <<TileRect(0, b, fullCanvas.width, fullCanvas.height - b)>>
                         ELSE <<>>)]]
     ELSE [canvasSize |-> fullCanvas, canvasCrop |-> [null |-> TRUE, rects |-> <<>>]]

\* canvasCrop.reduce((tile, crop) => (tile ? tile.intersect(crop) : tile), tile)
RECURSIVE cropLoop(_, _, _)
cropLoop(crops, tile, k) ==
  IF k > Len(crops) THEN tile
  ELSE cropLoop(crops, IF tile = NullRect THEN tile ELSE intersect(tile, crops[k]), k + 1)

\* model.holes.forEach of intersectWithHoles: the return inside the callback
\* ends that one callback, the loop goes on with result as it was
RECURSIVE holesLoop(_, _, _)
holesLoop(L, result, k) ==
  IF k > Len(L.model.holes) THEN result
  ELSE LET intersected == intersect(result, locateHole(L, L.model.holes[k]))
       IN holesLoop(L, IF intersected = NullRect THEN result ELSE intersected, k + 1)

\* layout(basisFactor, magnification, model, rows): the arguments the
\* returned functions close over, and the canvasSize and canvasCrop computed
\* once by the call
layout(basisFactor, mag, m, rowz) ==
  LET L == [basisFactor |-> basisFactor, magnification |-> mag, model |-> m, rows |-> rowz]
      c == canvas(L)
  IN [basisFactor |-> basisFactor, magnification |-> mag, model |-> m, rows |-> rowz,
      canvasSize |-> c.canvasSize, canvasCrop |-> c.canvasCrop]

\* intersectWithHoles(tile)
intersectWithHoles(L, tile) ==
  LET crops == L.canvasCrop
      result == IF ~crops.null THEN cropLoop(crops.rects, tile, 1) ELSE tile
  IN IF result # NullRect THEN holesLoop(L, result, 1) ELSE result

\* ---------------------------------------------------------------- TileCanvas
\* the tiles of some rows
TilesOf(rowz) ==
  UNION {{rowz[j].columns[c] : c \in 1..Len(rowz[j].columns)} : j \in 1..Len(rowz)}

\* the row holding a tile
RowOf(rowz, tile) ==
  rowz[CHOOSE j \in 1..Len(rowz) : \E c \in 1..Len(rowz[j].columns) : rowz[j].columns[c] = tile]

\* what the effect of TileCanvas gets for a tile: intersectWithHoles(locate(row.key, tile.key))
rectOf(L, tile) ==
  LET key == RowOf(L.rows, tile).key
  IN intersectWithHoles(L, locate(L, key, tile.key, key, tile.key, TRUE))

\* the tileMap the effect of TileCanvas fills, a Map<Tile, TileRect | null>: a
\* tile without a rectangle is kept as null here; the tiles with a rectangle
\* are the ones put into the quadtree for hit testing
tileMapOf(L) == [tile \in TilesOf(L.rows) |-> rectOf(L, tile)]

\* the tiles a pointer event can hit
Hits(map) == {tile \in DOMAIN map : map[tile] # NullRect}

\* ------------------------------------------------------------ paramsReducer
enabledCount(colourModel) == Len(SelectSeq(colourModel, LAMBDA c : c.enabled))

_isInHole(row, column, hole) ==
  /\ row >= hole.startRow
  /\ row <= hole.endRow
  /\ column >= hole.startColumn
  /\ column <= hole.endColumn

isInHole(row, column, m) ==
  \E k \in 1..Len(m.holes) : _isInHole(row, column, m.holes[k])

\* a reducer whose 'set' of the colour model always takes the group size
\* along to the number of enabled colours
paramsReducerSyncing(params, action) ==
  CASE action.type = "set" ->
         IF params[action.param] = action.value THEN params
         ELSE LET result ==
                    IF action.param = "colourModel"
                    THEN [params EXCEPT !.groupSize = enabledCount(action.value)]
                    ELSE params
              IN [result EXCEPT ![action.param] = action.value]
    [] action.type = "set-colour-palette" ->
         [params EXCEPT !.grout = action.palette.grout,
                        !.colourModel = action.palette.colourModel]
    [] action.type = "load" -> action.state
    [] action.type = "add-hole" ->
         [params EXCEPT !.holes = Append(@, [startRow |-> action.startRow,
                                             startColumn |-> action.startColumn,
                                             endRow |-> action.endRow,
                                             endColumn |-> action.endColumn])]
    [] action.type = "remove-hole" ->
         [params EXCEPT !.holes =
            SelectSeq(@, LAMBDA hole : ~_isInHole(action.row, action.column, hole))]
    [] OTHER -> params

\* paramsReducer(params, action): the record returned
paramsReducer(params, action) ==
  CASE action.type = "set" ->
         IF params[action.param] = action.value THEN params
         ELSE LET result ==
                    IF action.param = "colourModel"
                         /\ enabledCount(action.value) = params.groupSize
                    THEN [params EXCEPT !.groupSize = enabledCount(action.value)]
                    ELSE params
              IN [result EXCEPT ![action.param] = action.value]
    [] action.type = "set-colour-palette" ->
         [params EXCEPT !.grout = action.palette.grout,
                        !.colourModel = action.palette.colourModel]
    [] action.type = "load" -> action.state
    [] action.type = "add-hole" ->
         [params EXCEPT !.holes = Append(@, [startRow |-> action.startRow,
                                             startColumn |-> action.startColumn,
                                             endRow |-> action.endRow,
                                             endColumn |-> action.endColumn])]
    [] action.type = "remove-hole" ->
         [params EXCEPT !.holes =
            SelectSeq(@, LAMBDA hole : ~_isInHole(action.row, action.column, hole))]
    [] OTHER -> params

\* the kinds of action paramsReducer has a case for
ActionTypes == {"set", "set-colour-palette", "load", "add-hole", "remove-hole"}

\* what a call of paramsReducer does to the objects involved: the record it
\* returns, whether that is the object passed in (return params) or another
\* one (a spread, or the state of the 'load' action), and the record passed
\* in and its holes array as they are after the call: no case assigns to one
\* of them, the spreads and filter build new objects
paramsReducerEffect(params, action) ==
  [returned |-> paramsReducer(params, action),
   identical |-> \/ action.type = "set" /\ params[action.param] = action.value
                 \/ action.type \notin ActionTypes,
   params |-> params,
   holes |-> params.holes]

\* ------------------------------------------------------------ colour models
ColourSpec(name, enabled, weight, favourite) ==
  [name |-> name, enabled |-> enabled, weight |-> weight, favourite |-> favourite]

\* colour models the pattern generator is run on: cuts of the default palette
\* with no, one, two, three and four enabled colours and zero to two favourites
ColourModels ==
  { <<ColourSpec("cherry", FALSE, 5, FALSE), ColourSpec("pink", FALSE, 5, TRUE)>>,
    <<ColourSpec("cherry", TRUE, 5, FALSE), ColourSpec("pink", FALSE, 5, FALSE)>>,
    <<ColourSpec("cherry", TRUE, 5, FALSE), ColourSpec("pink", FALSE, 5, FALSE),
      ColourSpec("jeans", TRUE, 2, FALSE)>>,
    <<ColourSpec("cherry", TRUE, 5, FALSE), ColourSpec("jeans", TRUE, 9, FALSE),
      ColourSpec("pearl", TRUE, 1, TRUE)>>,
    <<ColourSpec("cherry", TRUE, 5, TRUE), ColourSpec("jeans", TRUE, 5, FALSE),
      ColourSpec("smoke", TRUE, 3, FALSE), ColourSpec("pearl", TRUE, 7, TRUE)>> }

DefaultGrout == "#e8ece4"

\* the parameter records of the generator runs: every field of the pattern
\* generator ranges over its bounded set, the layout fields keep their defaults
GenModels ==
  [seed : 0..MaxSeed,
   orientation : {"horizontal"},
   rowCount : {1},
   columnCount : 1..MaxColumns,
   complexity : 0..MaxComplexity,
   aspectRatio : {4},
   offset : {2},
   stepDirection : {"right"},
   stepAlternate : {TRUE},
   groupSize : 1..MaxGroupSize,
   rotation : 0..MaxRotation,
   holes : {<<>>},
   grout : {DefaultGrout},
   colourModel : ColourModels]

NoCall == [model |-> <<>>, outcome |-> "none", rows |-> <<>>, rowLog |-> <<>>]

\* ------------------------------------------------- the generator's callers
Init ==
  /\ model \in GenModels
  /\ rnd = [seed |-> model.seed, pos |-> 0]
  /\ outcome = "none"
  /\ rows = <<>>
  /\ rowLog = <<>>
  /\ prev = NoCall
  /\ magnification = 100
  /\ tileMap = <<>>
  /\ UndoIdle
  /\ GestureIdle

\* the useMemo of Backsplash and Export: rows = generateRows(state)
Render(m) ==
  \E g \in {generateRows(m)} :
    /\ rnd' = g.rnd
    /\ outcome' = IF g.error THEN "error" ELSE "rows"
    /\ rows' = g.rows
    /\ rowLog' = g.log

\* the call before is kept for comparison
Remember ==
  prev' = [model |-> model, outcome |-> outcome, rows |-> rows, rowLog |-> rowLog]

\* a page renders the current state (again): Backsplash, then Export
Generate ==
  /\ model' = model
  /\ Render(model)
  /\ Remember
  /\ UNCHANGED <<magnification, tileMap, undoVars, gestureVars>>

\* the row count field dispatches a 'set' and the new state is rendered
SetRowCount ==
  \E n \in 1..MaxRows :
    /\ n # model.rowCount
    /\ outcome # "none"
    /\ model' = paramsReducer(model, [type |-> "set", param |-> "rowCount", value |-> n])
    /\ Render(model')
    /\ Remember
    /\ UNCHANGED <<magnification, tileMap, undoVars, gestureVars>>

Next == Generate \/ SetRowCount

Spec == Init /\ [][Next]_vars

\* ------------------------------------------------ the Backsplash page, holes
\* the parameter records of the layout runs: a grid of one colour, every
\* field of the layout engine ranging over its bounded set
LayoutModels ==
  { m \in [seed : {0},
           orientation : {"horizontal", "vertical"},
           rowCount : {2, GridSteps},
           columnCount : {2, GridSteps},
           complexity : {0},
           aspectRatio : {-2, 2},
           offset : 1..MaxOffset,
           stepDirection : {"left", "right"},
           stepAlternate : {FALSE, TRUE},
           groupSize : {1},
           rotation : {0},
           holes : {<<>>},
           grout : {DefaultGrout},
           colourModel : {<<ColourSpec("cherry", TRUE, 5, FALSE)>>}] :
      \* the fields a layout does not read keep their defaults: the step
      \* direction and alternation up to offset 2, the orientation at offset 1
      /\ m.offset <= 2 => (m.stepDirection = "right" /\ m.stepAlternate)
      /\ m.offset <= 1 => m.orientation = "horizontal"
      \* the grid has GridSteps cells along the axis the layout steps over
      \* (the rows of a horizontal layout, the columns of a vertical one) and
      \* two cells across it
      /\ m.orientation = "horizontal" => (m.rowCount = GridSteps /\ m.columnCount = 2)
      /\ m.orientation = "vertical" => (m.rowCount = 2 /\ m.columnCount = GridSteps) }

Magnifications == {100}

\* the layout of the TileCanvas of the Backsplash page (basisFactor = 1)
LayoutOf(m, rowz, mag) == layout(1, mag, m, rowz)

\* the page renders a state: generateRows, then the effect of TileCanvas
RenderCanvas(m) ==
  /\ Render(m)
  /\ \E L \in {LayoutOf(m, rows', magnification)} : tileMap' = tileMapOf(L)

LayoutInit ==
  /\ model \in LayoutModels
  /\ magnification \in Magnifications
  /\ rnd = generateRows(model).rnd
  /\ outcome = "rows"
  /\ rows = generateRows(model).rows
  /\ rowLog = generateRows(model).log
  /\ prev = NoCall
  /\ \E L \in {LayoutOf(model, rows, magnification)} : tileMap = tileMapOf(L)
  /\ UndoIdle
  /\ GestureIdle

\* an 'add-hole' action from the anchor to the head as they were dragged
addHoleOfAsDragged(anchor, head) ==
  [type |-> "add-hole",
   startRow |-> anchor.row,
   startColumn |-> anchor.key,
   endRow |-> head.row,
   endColumn |-> head.key]

\* Backsplash.onTileSelection: the 'add-hole' action of a selection between
\* two tiles
addHoleOf(anchor, head) ==
  [type |-> "add-hole",
   startRow |-> Min(anchor.row, head.row),
   startColumn |-> Min(anchor.key, head.key),
   endRow |-> Max(anchor.row, head.row),
   endColumn |-> Max(anchor.key, head.key)]

\* Backsplash.onHoleRemoval: the 'remove-hole' action of an Alt-click on a tile
removeHoleOf(hit) == [type |-> "remove-hole", row |-> hit.row, column |-> hit.key]

\* a selection gesture ended on two tiles hit in the quadtree: the hole
\* between them is added and the page rendered
AddHole ==
  /\ Len(model.holes) < MaxHoles
  /\ \E action \in {addHoleOf(anchor, head) : anchor \in Hits(tileMap), head \in Hits(tileMap)} :
       /\ model' = paramsReducer(model, action)
       /\ RenderCanvas(model')
       /\ UNCHANGED <<magnification, prev, undoVars, gestureVars>>

\* an Alt-click hit a tile of the quadtree: the holes around it are removed
\* and the page rendered
RemoveHole ==
  \E reduced \in {paramsReducer(model, removeHoleOf(hit)) : hit \in Hits(tileMap)} :
    /\ model' = reduced
    /\ RenderCanvas(model')
    /\ UNCHANGED <<magnification, prev, undoVars, gestureVars>>

LayoutNext == AddHole \/ RemoveHole

LayoutSpec == LayoutInit /\ [][LayoutNext]_vars

\* --------------------------------------- the Backsplash page, a loaded file
\* the cells of the grid of a parameter record
CellsOf(m) == (1..m.rowCount) \X (1..m.columnCount)

\* the regions regionSchema lets through for the cells of the grid: four
\* integers, in any order of start and end
RegionsOf(m) ==
  [startRow : 1..m.rowCount, startColumn : 1..m.columnCount,
   endRow : 1..m.rowCount, endColumn : 1..m.columnCount]

\* Backsplash.uploadFile: a file holding the parameters of the page with one
\* hole passes tileParametersSchema, loadState dispatches 'load' and the
\* page is rendered
LoadState ==
  \E region \in RegionsOf(model) :
    /\ model' = paramsReducer(model, [type |-> "load",
                                      state |-> [model EXCEPT !.holes = <<region>>]])
    /\ RenderCanvas(model')
    /\ UNCHANGED <<magnification, prev, undoVars, gestureVars>>

LoadNext == LoadState \/ RemoveHole

LoadSpec == LayoutInit /\ [][LoadNext]_vars

\* ------------------------------------------------------ colourPaletteReducer
\* setColourModel(palette, model): the 'set-colour-model' case of the reducer
setColourModel(palette, colourModel) == [palette EXCEPT !.colourModel = colourModel]

\* toggle(palette, colourName, prop)
toggle(palette, colourName, prop) ==
  setColourModel(palette,
    [k \in 1..Len(palette.colourModel) |->
       LET colour == palette.colourModel[k]
       IN IF colour.name # colourName THEN colour
          ELSE [colour EXCEPT ![prop] = ~colour[prop]]])

MinWeight == 1
MaxWeight == 9

\* colourPaletteReducer(palette, action); a colour carries no hexcode here,
\* so that 'change-colour' gives a colour model of the same colours
colourPaletteReducer(palette, action) ==
  CASE action.type = "set-grout" ->
         [grout |-> action.colour, colourModel |-> palette.colourModel]
    [] action.type = "set-colour-model" -> setColourModel(palette, action.model)
    [] action.type = "add-colour" ->
         setColourModel(palette, Append(palette.colourModel, action.colour))
    [] action.type = "delete-colour" ->
         setColourModel(palette,
           SelectSeq(palette.colourModel, LAMBDA colour : colour.name # action.colourName))
    [] action.type = "change-colour" -> setColourModel(palette, palette.colourModel)
    [] action.type = "toggle-colour" -> toggle(palette, action.colourName, "enabled")
    [] action.type = "toggle-fave" -> toggle(palette, action.colourName, "favourite")
    [] action.type = "weight-colour" ->
         setColourModel(palette,
           [k \in 1..Len(palette.colourModel) |->
              LET colour == palette.colourModel[k]
              IN IF colour.name # action.colourName THEN colour
                 ELSE [colour EXCEPT !.weight =
                         Min(MaxWeight, Max(MinWeight, colour.weight + action.delta))]])
    [] OTHER -> palette

\* the first colours of defaultColourPalette.colourModel
DefaultColours ==
  <<ColourSpec("cherry", TRUE, 5, FALSE), ColourSpec("pink", FALSE, 5, FALSE),
    ColourSpec("jeans", TRUE, 5, FALSE), ColourSpec("smoke", TRUE, 5, FALSE),
    ColourSpec("pearl", TRUE, 5, TRUE)>>

\* defaultColourPalette, of PaletteSize colours
defaultColourPalette ==
  [grout |-> DefaultGrout, colourModel |-> SubSeq(DefaultColours, 1, PaletteSize)]

\* defaultParams, the seed 'Oceani' being seed 0 here
defaultParams ==
  [seed |-> 0,
   orientation |-> "horizontal",
   rowCount |-> 8,
   columnCount |-> 34,
   complexity |-> 1,
   aspectRatio |-> 4,
   offset |-> 2,
   stepDirection |-> "right",
   stepAlternate |-> TRUE,
   groupSize |-> enabledCount(defaultColourPalette.colourModel),
   rotation |-> 0,
   holes |-> <<>>,
   grout |-> defaultColourPalette.grout,
   colourModel |-> defaultColourPalette.colourModel]

\* ------------------------------------------- the colour dialog and the form
\* the colour a submitted 'new colour' form adds, once per name here
NewColour == ColourSpec("blush", TRUE, 5, FALSE)

Grouts == {DefaultGrout, "#000000"}

\* the names of the colours of a colour model
NamesOf(colourModel) == {colourModel[k].name : k \in 1..Len(colourModel)}

\* the ColourActions the buttons and inputs of the ColourDialog dispatch on a
\* state, one set for each shape of action
ToggleAndDeleteActions(m) ==
  {[type |-> t, colourName |-> n] :
     t \in {"toggle-colour", "toggle-fave", "delete-colour"}, n \in NamesOf(m.colourModel)}

ChangeColourActions(m) ==
  {[type |-> "change-colour", colourName |-> n, hexcode |-> "#000000"] :
     n \in NamesOf(m.colourModel)}

\* the weight buttons are disabled at weights 1 and 9
WeightColourActions(m) ==
  {[type |-> "weight-colour", colourName |-> m.colourModel[k].name, delta |-> d] :
     k \in {x \in 1..Len(m.colourModel) :
              m.colourModel[x].weight > MinWeight /\ m.colourModel[x].weight < MaxWeight},
     d \in {-1, 1}}

SetGroutActions == {[type |-> "set-grout", colour |-> g] : g \in Grouts}

AddColourActions(m) ==
  {[type |-> "add-colour", colour |-> c] :
     c \in {colour \in {NewColour} : colour.name \notin NamesOf(m.colourModel)}}

\* ColourDialog.dispatchColour(action)
dispatchColourOf(m, action) ==
  [type |-> "set-colour-palette",
   palette |-> colourPaletteReducer([grout |-> m.grout, colourModel |-> m.colourModel], action)]

\* the 'set-colour-palette' actions the ColourDialog dispatches on a state
PaletteActions(m) ==
  {dispatchColourOf(m, action) : action \in ToggleAndDeleteActions(m)}
  \cup {dispatchColourOf(m, action) : action \in ChangeColourActions(m)}
  \cup {dispatchColourOf(m, action) : action \in WeightColourActions(m)}
  \cup {dispatchColourOf(m, action) : action \in SetGroutActions}
  \cup {dispatchColourOf(m, action) : action \in AddColourActions(m)}

\* the weights a colour is taken through
WithinWeightSteps(m) ==
  \A k \in 1..Len(m.colourModel) :
    /\ m.colourModel[k].weight >= 5 - MaxWeightSteps
    /\ m.colourModel[k].weight <= 5 + MaxWeightSteps

\* a button or input of the ColourDialog is used
DispatchColour ==
  \E reduced \in {paramsReducer(model, action) : action \in PaletteActions(model)} :
    /\ WithinWeightSteps(reduced)
    /\ model' = reduced
    /\ UNCHANGED <<rnd, outcome, rows, rowLog, prev, magnification, tileMap, undoVars, gestureVars>>

\* the Group Size slider, from 1 to the number of enabled colours, is moved:
\* updater('groupSize') dispatches a 'set'
UpdateGroupSize ==
  \E value \in 1..enabledCount(model.colourModel) :
    /\ model' = paramsReducer(model, [type |-> "set", param |-> "groupSize", value |-> value])
    /\ UNCHANGED <<rnd, outcome, rows, rowLog, prev, magnification, tileMap, undoVars, gestureVars>>

\* the Alternate Steps switch is flipped: updater('stepAlternate', 'checked')
UpdateStepAlternate ==
  \E value \in BOOLEAN :
    /\ model' = paramsReducer(model, [type |-> "set", param |-> "stepAlternate", value |-> value])
    /\ UNCHANGED <<rnd, outcome, rows, rowLog, prev, magnification, tileMap, undoVars, gestureVars>>

\* the store of the parameters, as useReducer(paramsReducer, defaultParams)
\* holds it
ParamsInit ==
  /\ model = defaultParams
  /\ rnd = [seed |-> model.seed, pos |-> 0]
  /\ outcome = "none"
  /\ rows = <<>>
  /\ rowLog = <<>>
  /\ prev = NoCall
  /\ magnification = 100
  /\ tileMap = <<>>
  /\ UndoIdle
  /\ GestureIdle

ParamsNext == DispatchColour \/ UpdateGroupSize \/ UpdateStepAlternate

ParamsSpec == ParamsInit /\ [][ParamsNext]_vars

\* ------------------------------------------------ paramsReducer, call by call
\* the parameter records paramsReducer is called on: defaultParams on a grid
\* of two rows and two columns, with the colour models of the generator runs,
\* every group size, and no hole or one hole as regionSchema admits it
ReducerModels ==
  {[m EXCEPT !.holes = holes] :
     m \in {[defaultParams EXCEPT !.rowCount = 2, !.columnCount = 2,
                                  !.colourModel = colourModel, !.groupSize = groupSize] :
              colourModel \in ColourModels, groupSize \in 1..MaxGroupSize},
     holes \in {<<>>} \cup {<<region>> : region \in RegionsOf([rowCount |-> 2, columnCount |-> 2])}}

\* the values a 'set' action carries for a parameter
SetValues(param) ==
  CASE param = "groupSize" -> 1..MaxGroupSize
    [] param = "rowCount" -> 1..MaxRows
    [] param = "stepAlternate" -> BOOLEAN
    [] param = "colourModel" -> ColourModels

\* one call paramsReducer(model, action) whose result becomes the state; the
\* call is kept with its effect
Reduce(action) ==
  /\ prev.outcome = "none"
  /\ \E effect \in {paramsReducerEffect(model, action)} :
       /\ model' = effect.returned
       /\ prev' = [model |-> model, outcome |-> "reduced", action |-> action, effect |-> effect]
  /\ UNCHANGED <<rnd, outcome, rows, rowLog, magnification, tileMap, undoVars, gestureVars>>

ReduceSet ==
  \E param \in {"groupSize", "rowCount", "stepAlternate", "colourModel"} :
    \E value \in SetValues(param) :
      Reduce([type |-> "set", param |-> param, value |-> value])

ReduceSetColourPalette == \E action \in PaletteActions(model) : Reduce(action)

\* a 'load' of the defaults, or of the state with the hole of a loaded file
ReduceLoad ==
  \/ Reduce([type |-> "load", state |-> defaultParams])
  \/ \E region \in RegionsOf(model) :
       Reduce([type |-> "load", state |-> [model EXCEPT !.holes = <<region>>]])

ReduceAddHole ==
  \E anchor \in CellsOf(model), head \in CellsOf(model) :
    Reduce(addHoleOf([row |-> anchor[1], key |-> anchor[2]], [row |-> head[1], key |-> head[2]]))

ReduceRemoveHole ==
  \E cell \in CellsOf(model) : Reduce(removeHoleOf([row |-> cell[1], key |-> cell[2]]))

ReducerInit ==
  /\ model \in ReducerModels
  /\ rnd = [seed |-> model.seed, pos |-> 0]
  /\ outcome = "none"
  /\ rows = <<>>
  /\ rowLog = <<>>
  /\ prev = NoCall
  /\ magnification = 100
  /\ tileMap = <<>>
  /\ UndoIdle
  /\ GestureIdle

ReducerNext ==
  ReduceSet \/ ReduceSetColourPalette \/ ReduceLoad \/ ReduceAddHole \/ ReduceRemoveHole

ReducerSpec == ReducerInit /\ [][ReducerNext]_vars

\* --------------------------------------------------------------- useUndoRedo
\* The undoStack is cut back to its newest 1000 states; the model cuts it
\* back to UndoLimit states.
UndoLimit == 3

\* the actions the page dispatches while the history is watched: the
\* Orientation switch set to a value, which may be the value it has
UndoEdits ==
  {[type |-> "set", param |-> "orientation", value |-> o] : o \in {"horizontal", "vertical"}}

\* The state of the store is an object, and the hook compares objects by
\* identity: a state object is [ref, params], two objects being the same one
\* when their ref is the same.  U is what the hook works on: the state object
\* of the store, the two stacks, canUndo and canRedo, and the debounced call.
StateObject == [ref |-> ref, params |-> model]

UndoManager ==
  [state |-> StateObject, undoStack |-> undoStack, redoStack |-> redoStack,
   canUndo |-> canUndo, canRedo |-> canRedo, pending |-> pending]

\* the refs of the objects U still holds
LiveRefs(U) ==
  {U.state.ref}
  \cup {U.undoStack[k].ref : k \in 1..Len(U.undoStack)}
  \cup {U.redoStack[k].ref : k \in 1..Len(U.redoStack)}
  \cup {U.pending[k].ref : k \in 1..Len(U.pending)}

\* the ref of a new object: one no object held has
FreshRef(U) ==
  CHOOSE n \in 0..Cardinality(LiveRefs(U)) :
    /\ n \notin LiveRefs(U)
    /\ \A o \in 0..(n - 1) : o \in LiveRefs(U)

\* a debounced function that leaves the redoStack as it is
pushUndoKeepingRedo(U, undoState) ==
  LET pushed == Append(U.undoStack, undoState)
      kept == IF Len(pushed) > UndoLimit
              THEN SubSeq(pushed, Len(pushed) - UndoLimit + 1, Len(pushed))
              ELSE pushed
  IN [U EXCEPT !.undoStack = kept, !.canUndo = Len(kept) > 1]

\* a debounced function that never cuts the undoStack
pushUndoUncut(U, undoState) ==
  LET pushed == Append(U.undoStack, undoState)
  IN [U EXCEPT !.undoStack = pushed, !.canUndo = Len(pushed) > 1,
               !.redoStack = <<>>, !.canRedo = FALSE]

\* the function debounce wraps, called with the state of the last pushUndo
pushUndo(U, undoState) ==
  LET pushed == Append(U.undoStack, undoState)
      kept == IF Len(pushed) > UndoLimit
              THEN SubSeq(pushed, Len(pushed) - UndoLimit + 1, Len(pushed))
              ELSE pushed
  IN [U EXCEPT !.undoStack = kept, !.canUndo = Len(kept) > 1,
               !.redoStack = <<>>, !.canRedo = FALSE]

\* the effect on [state]: pushUndo(state) is called, and the debounce keeps
\* the call, unless the state is the object on top of one of the stacks
stateEffect(U) ==
  LET noUndoState == U.undoStack = <<>>
      noRedoState == U.redoStack = <<>>
      undoOther == noUndoState \/ U.undoStack[Len(U.undoStack)].ref # U.state.ref
      redoOther == noRedoState \/ U.redoStack[Len(U.redoStack)].ref # U.state.ref
  IN IF (noUndoState /\ noRedoState) \/ (undoOther /\ redoOther)
     THEN [U EXCEPT !.pending = <<U.state>>]
     ELSE U

\* dispatch(action) of the store and the render after it: the reducer gives
\* the state passed in (nothing is rendered), a new object, or with 'load'
\* the object of the action
dispatch(U, action, loaded) ==
  LET effect == paramsReducerEffect(U.state.params, action)
      object == IF action.type = "load" THEN loaded
                ELSE [ref |-> FreshRef(U), params |-> effect.returned]
  IN IF effect.identical \/ object.ref = U.state.ref THEN U
     ELSE stateEffect([U EXCEPT !.state = [object EXCEPT !.params = effect.returned]])

\* undo()
undo(U) ==
  IF ~U.canUndo THEN U
  ELSE LET popped == IF U.undoStack = <<>> THEN <<>> ELSE <<U.undoStack[Len(U.undoStack)]>>
           undone == [U EXCEPT !.undoStack = SubSeq(@, 1, Len(@) - Len(popped)),
                               !.redoStack = @ \o popped,
                               !.canRedo = IF popped = <<>> THEN @ ELSE TRUE]
           loaded(undoState) ==
             dispatch(undone, [type |-> "load", state |-> undoState.params], undoState)
           after == IF undone.undoStack = <<>> THEN undone
                    ELSE loaded(undone.undoStack[Len(undone.undoStack)])
       IN [after EXCEPT !.canUndo = Len(after.undoStack) > 1]

\* redo()
redo(U) ==
  IF ~U.canRedo THEN U
  ELSE LET loaded(undoState) ==
             LET pushed == [U EXCEPT !.redoStack = SubSeq(@, 1, Len(@) - 1),
                                     !.undoStack = Append(@, undoState)]
                 after == dispatch(pushed, [type |-> "load", state |-> undoState.params],
                                   undoState)
             IN [after EXCEPT !.canUndo = TRUE]
           after == IF U.redoStack = <<>> THEN U
                    ELSE loaded(U.redoStack[Len(U.redoStack)])
       IN [after EXCEPT !.canRedo = Len(after.redoStack) > 0]

\* the hook goes on as U, op having been done on what it was
Becomes(U, op) ==
  /\ model' = U.state.params
  /\ ref' = U.state.ref
  /\ undoStack' = U.undoStack
  /\ redoStack' = U.redoStack
  /\ canUndo' = U.canUndo
  /\ canRedo' = U.canRedo
  /\ pending' = U.pending
  /\ prev' = [op |-> op, manager |-> UndoManager]
  /\ UNCHANGED <<rnd, outcome, rows, rowLog, magnification, tileMap, gestureVars>>

\* a page dispatches an edit
Edit == \E action \in UndoEdits : Becomes(dispatch(UndoManager, action, StateObject), "edit")

\* 350 ms have passed since the last pushUndo call: the debounced function runs
Expire ==
  /\ pending # <<>>
  /\ Becomes([pushUndo(UndoManager, pending[1]) EXCEPT !.pending = <<>>], "push")

\* the Undo button or Cmd-Z
Undo ==
  /\ canUndo
  /\ Becomes(undo(UndoManager), "undo")

\* the Redo button or Shift-Cmd-Z
Redo ==
  /\ canRedo
  /\ Becomes(redo(UndoManager), "redo")

\* ModelScope is mounted: the store holds the default parameters, the stacks
\* of the UndoContext are empty and the effect has called pushUndo(state)
UndoInit ==
  /\ model = defaultParams
  /\ rnd = [seed |-> model.seed, pos |-> 0]
  /\ outcome = "none"
  /\ rows = <<>>
  /\ rowLog = <<>>
  /\ magnification = 100
  /\ tileMap = <<>>
  /\ ref = 0
  /\ undoStack = <<>>
  /\ redoStack = <<>>
  /\ canUndo = FALSE
  /\ canRedo = FALSE
  /\ pending = <<[ref |-> 0, params |-> defaultParams]>>
  /\ prev = [op |-> "mount", manager |-> [UndoManager EXCEPT !.pending = <<>>]]
  /\ GestureIdle

UndoNext == Edit \/ Expire \/ Undo \/ Redo

UndoSpec == UndoInit /\ [][UndoNext]_vars

\* ------------------------------------------------- the TileSelectionManager
\* the parameter records of the gesture runs: one row of three tiles of one
\* colour
GestureModels ==
  [seed : {0},
   orientation : {"horizontal"},
   rowCount : {1},
   columnCount : {3},
   complexity : {0},
   aspectRatio : {2},
   offset : {2},
   stepDirection : {"right"},
   stepAlternate : {TRUE},
   groupSize : {1},
   rotation : {0},
   holes : {<<>>},
   grout : {DefaultGrout},
   colourModel : {<<ColourSpec("cherry", TRUE, 5, FALSE)>>}]

\* hits[0] of store.query(search(e)) for a pointer somewhere on the canvas:
\* a tile of the quadtree, or nothing
HitsAt(map) == {<<tile>> : tile \in Hits(map)} \cup {NoHit}

\* the TileSelection { anchor, head } of an anchor and a head
TileSelection(a, h) == <<a[1], h[1]>>

\* null, as the argument of onSelection and onSelectionEnd
NoSelection == <<>>

\* What is known of the events so far, whatever the listeners do with them:
\* down is the tile hit by the latest mousedown without Alt, if it hit one
\* and no Escape and no mouseup without Alt has come after it; altUp tells
\* that a mouseup with Alt has come after it; hit is the tile hit latest by a
\* mousedown or mousemove without Alt, anyHit by one with or without Alt.
NoEvents == [down |-> NoHit, altUp |-> FALSE, hit |-> NoHit, anyHit |-> NoHit]

EventsAfter(seen, event) ==
  LET pointed == event.type \in {"mousedown", "mousemove"} /\ event.hit # NoHit
      pressed == event.type = "mousedown" /\ ~event.altKey
      released == event.type = "mouseup" /\ ~event.altKey
      escaped == event.type = "keydown" /\ event.key = "Escape"
  IN [down |-> IF pressed THEN event.hit
               ELSE IF released \/ escaped THEN NoHit ELSE seen.down,
      altUp |-> IF pressed \/ released \/ escaped THEN FALSE
                ELSE IF event.type = "mouseup" THEN seen.down # NoHit
                ELSE seen.altUp,
      hit |-> IF pointed /\ ~event.altKey THEN event.hit ELSE seen.hit,
      anyHit |-> IF pointed THEN event.hit ELSE seen.anyHit]

\* a listener has handled an event: the calls of onSelection and of
\* onSelectionEnd it made, each with its argument, and the events seen so far
Handled(event, selected, ended) ==
  prev' = [event |-> event, onSelection |-> selected, onSelectionEnd |-> ended,
           seen |-> EventsAfter(prev.seen, event)]

\* nothing is dispatched and nothing rendered
NoRender == UNCHANGED <<model, rnd, outcome, rows, rowLog, magnification, tileMap, undoVars>>

\* the mousedown listener
MouseDown ==
  \E altKey \in BOOLEAN, hit \in HitsAt(tileMap) :
    \E event \in {[type |-> "mousedown", altKey |-> altKey, hit |-> hit, key |-> ""]} :
      /\ NoRender
      /\ IF altKey
         THEN /\ UNCHANGED gestureVars
              /\ Handled(event, <<>>, <<>>)
         ELSE IF hit # NoHit
              THEN /\ gestureAnchor' = hit
                   /\ gestureHead' = hit
                   /\ Handled(event, <<TileSelection(hit, hit)>>, <<>>)
              ELSE /\ gestureAnchor' = NoHit
                   /\ gestureHead' = NoHit
                   /\ Handled(event, <<NoSelection>>, <<>>)

\* a mousemove listener that takes a move with Alt like one without
MouseMoveWithAlt ==
  \E altKey \in BOOLEAN, hit \in HitsAt(tileMap) :
    \E event \in {[type |-> "mousemove", altKey |-> altKey, hit |-> hit, key |-> ""]} :
      /\ NoRender
      /\ IF gestureAnchor = NoHit \/ gestureHead = NoHit
         THEN /\ UNCHANGED gestureVars
              /\ Handled(event, <<>>, <<>>)
         ELSE IF hit # NoHit
              THEN /\ gestureHead' = hit
                   /\ UNCHANGED gestureAnchor
                   /\ Handled(event, <<TileSelection(gestureAnchor, hit)>>, <<>>)
              ELSE /\ UNCHANGED gestureVars
                   /\ Handled(event, <<>>, <<>>)

\* the mousemove listener
MouseMove ==
  \E altKey \in BOOLEAN, hit \in HitsAt(tileMap) :
    \E event \in {[type |-> "mousemove", altKey |-> altKey, hit |-> hit, key |-> ""]} :
      /\ NoRender
      /\ IF gestureAnchor = NoHit \/ gestureHead = NoHit \/ altKey
         THEN /\ UNCHANGED gestureVars
              /\ Handled(event, <<>>, <<>>)
         ELSE IF hit # NoHit
              THEN /\ gestureHead' = hit
                   /\ UNCHANGED gestureAnchor
                   /\ Handled(event, <<TileSelection(gestureAnchor, hit)>>, <<>>)
              ELSE /\ UNCHANGED gestureVars
                   /\ Handled(event, <<>>, <<>>)

\* the mouseup listener; onSelectionEnd of TileCanvas passes a selection on
\* to onTileSelection of the page, which dispatches the 'add-hole', and the
\* page is rendered: the effect of the TileSelectionManager runs again, its
\* anchor and head undefined
MouseUp ==
  \E altKey \in BOOLEAN :
    \E event \in {[type |-> "mouseup", altKey |-> altKey, hit |-> NoHit, key |-> ""]} :
      IF altKey
      THEN /\ NoRender
           /\ UNCHANGED gestureVars
           /\ Handled(event, <<>>, <<>>)
      ELSE IF gestureAnchor # NoHit /\ gestureHead # NoHit
           THEN /\ Len(model.holes) < MaxHoles
                /\ model' = paramsReducer(model, addHoleOf(gestureAnchor[1], gestureHead[1]))
                /\ RenderCanvas(model')
                /\ UNCHANGED <<magnification, undoVars>>
                /\ gestureAnchor' = NoHit
                /\ gestureHead' = NoHit
                /\ Handled(event, <<>>, <<TileSelection(gestureAnchor, gestureHead)>>)
           ELSE /\ NoRender
                /\ gestureAnchor' = NoHit
                /\ gestureHead' = NoHit
                /\ Handled(event, <<>>, <<NoSelection>>)

\* the keydown listener
KeyDown ==
  \E key \in {"Escape", "Enter"} :
    \E event \in {[type |-> "keydown", altKey |-> FALSE, hit |-> NoHit, key |-> key]} :
      /\ NoRender
      /\ IF gestureAnchor # NoHit /\ gestureHead # NoHit /\ key = "Escape"
         THEN /\ gestureAnchor' = NoHit
              /\ gestureHead' = NoHit
              /\ Handled(event, <<NoSelection>>, <<NoSelection>>)
         ELSE /\ UNCHANGED gestureVars
              /\ Handled(event, <<>>, <<>>)

\* the click listener with Alt on a tile: onAltClick of TileCanvas passes the
\* hit on to onHoleRemoval of the page, which dispatches the 'remove-hole',
\* and the page is rendered
AltClick ==
  \E hit \in HitsAt(tileMap) \ {NoHit} :
    \E event \in {[type |-> "click", altKey |-> TRUE, hit |-> hit, key |-> ""]} :
      /\ model' = paramsReducer(model, removeHoleOf(hit[1]))
      /\ RenderCanvas(model')
      /\ UNCHANGED <<magnification, undoVars>>
      /\ gestureAnchor' = NoHit
      /\ gestureHead' = NoHit
      /\ Handled(event, <<>>, <<>>)

\* the page is rendered again with the state it has (a canUndo or canRedo
\* set, say): TileCanvas passes new onSelection and onSelectionEnd functions
\* and the effect of the TileSelectionManager runs again, its anchor and head
\* undefined
Rerender ==
  \E event \in {[type |-> "render", altKey |-> FALSE, hit |-> NoHit, key |-> ""]} :
    /\ NoRender
    /\ gestureAnchor' = NoHit
    /\ gestureHead' = NoHit
    /\ Handled(event, <<>>, <<>>)

\* the page is rendered with its TileCanvas and TileSelectionManager
GestureInit ==
  /\ model \in GestureModels
  /\ magnification \in Magnifications
  /\ rnd = generateRows(model).rnd
  /\ outcome = "rows"
  /\ rows = generateRows(model).rows
  /\ rowLog = generateRows(model).log
  /\ \E L \in {LayoutOf(model, rows, magnification)} : tileMap = tileMapOf(L)
  /\ prev = [event |-> [type |-> "render", altKey |-> FALSE, hit |-> NoHit, key |-> ""],
             onSelection |-> <<>>, onSelectionEnd |-> <<>>, seen |-> NoEvents]
  /\ UndoIdle
  /\ GestureIdle

GestureNext == MouseDown \/ MouseMove \/ MouseUp \/ KeyDown \/ AltClick \/ Rerender

GestureSpec == GestureInit /\ [][GestureNext]_vars

\* ------------------------------------------------- claims on the gestures
\* the selections a listener passed to a callback
SelectionsOf(calls) == {calls[i] : i \in DOMAIN calls} \ {NoSelection}

\* the event handled is a mouseup without Alt, or an Escape
Releases(event) ==
  \/ event.type = "mouseup" /\ ~event.altKey
  \/ event.type = "keydown" /\ event.key = "Escape"

\* the event handled is a mouseup or an Escape
AnyRelease(event) ==
  \/ event.type = "mouseup"
  \/ event.type = "keydown" /\ event.key = "Escape"

Range(f) == {f[k] : k \in DOMAIN f}

\* the latest call, in the shape of prev
Cur == [model |-> model, outcome |-> outcome, rows |-> rows, rowLog |-> rowLog]

\* two calls that returned rows and whose parameters differ in rowCount at most
Grown(short, long) ==
  /\ short.outcome = "rows"
  /\ long.outcome = "rows"
  /\ [short.model EXCEPT !.rowCount = 0] = [long.model EXCEPT !.rowCount = 0]
  /\ long.model.rowCount >= short.model.rowCount

Colours(row) == [c \in 1..Len(row.columns) |-> row.columns[c].colour]

\* what generateRow went through for the row at index j of a call's rows
LogOf(call, j) == call.rowLog[Len(call.rowLog) - j + 1]

\* C1: with all parameters but rowCount equal, the bottom N rows of the
\* (N + k)-row output have, position by position, the tile colours of the
\* rows of the N-row output (k >= 0).
C1_StabilityColours ==
  \A pair \in {<<prev, Cur>>, <<Cur, prev>>} :
    LET short == pair[1]
        long == pair[2]
    IN Grown(short, long) =>
         LET k == long.model.rowCount - short.model.rowCount
         IN \A j \in 1..short.model.rowCount :
              /\ j \in DOMAIN short.rows
              /\ k + j \in DOMAIN long.rows
              /\ Colours(long.rows[k + j]) = Colours(short.rows[j])

\* a two-row output grown by one row, the two rows coloured differently
C1_Witness ==
  /\ Grown(prev, Cur)
  /\ prev.model.rowCount = 2
  /\ model.rowCount = 3
  /\ Colours(prev.rows[1]) # Colours(prev.rows[2])
  /\ Colours(rows[2]) = Colours(prev.rows[1])

C6_AntiAdjacency ==
  \A x \in 1..Len(rowLog) :
    LET e == rowLog[x]
        n == Len(e.colours)
    IN Cardinality(Range(e.colours)) > 1 =>
         \A at \in 1..(Len(e.dispensed) - 1) :
           at % n = 0 => e.dispensed[at + 1] # e.dispensed[at]

\* C7: with rotation < columnCount the tile dispensed at 0-based position p
\* has key ((p + rotation) mod columnCount) + 1 and sits at array index
\* (p + rotation) mod columnCount of the returned row, so the tile at array
\* index j has key j + 1.
C7_RotationConsistency ==
  (outcome = "rows" /\ model.rotation < model.columnCount) =>
    \A j \in 1..Len(rows) :
      LET tiles == LogOf(Cur, j).tiles
          columns == rows[j].columns
      IN /\ \A p \in 0..(Len(tiles) - 1) :
              LET at == (p + model.rotation) % model.columnCount
              IN /\ tiles[p + 1].key = at + 1
                 /\ at + 1 \in DOMAIN columns
                 /\ columns[at + 1] = tiles[p + 1]
         /\ \A c \in 1..Len(columns) : columns[c].key = c

\* rotation 2 of 4 columns: the first dispensed tile has key 3 and sits at
\* index 2, in a row of more than one colour
C7_Witness ==
  /\ outcome = "rows"
  /\ model.rotation = 2
  /\ model.columnCount = 4
  /\ LogOf(Cur, 1).tiles[1].key = 3
  /\ rows[1].columns[3] = LogOf(Cur, 1).tiles[1]
  /\ Cardinality(Range(Colours(rows[1]))) > 1

\* C8: a call that returns, returns rowCount rows of columnCount tiles with
\* row keys 1 .. rowCount from first to last, the last being the row the
\* fresh random stream generates first.
C8_OutputShape ==
  outcome = "rows" =>
    /\ Len(rows) = model.rowCount
    /\ \A j \in 1..Len(rows) :
         /\ rows[j].key = j
         /\ Len(rows[j].columns) = model.columnCount
    /\ rows[Len(rows)] = generateRow(model, model.rowCount, Randomizer(model.seed)).row

\* three rows of four columns, the first generated row unlike the other two
C8_Witness ==
  /\ outcome = "rows"
  /\ model.rowCount = 3
  /\ model.columnCount = 4
  /\ Len(rows) = 3
  /\ Colours(rows[3]) # Colours(rows[1])
  /\ Colours(rows[3]) # Colours(rows[2])

\* C9: every tile has row in 1 .. rowCount, equal to the key of its TileRow,
\* and key in 1 .. columnCount, whatever the rotation.
C9_TileCoordinates ==
  outcome = "rows" =>
    \A j \in 1..Len(rows) :
      \A c \in 1..Len(rows[j].columns) :
        LET tile == rows[j].columns[c]
        IN /\ tile.row \in 1..model.rowCount
           /\ tile.row = rows[j].key
           /\ tile.key \in 1..model.columnCount

\* rows generated under a rotation beyond the column count
C9_Witness ==
  /\ outcome = "rows"
  /\ model.rotation > model.columnCount
  /\ model.columnCount >= 2
  /\ model.rowCount >= 2
  /\ Len(rows) >= 2

\* the aligned runs of size emissions of a row contain every favourite
GroupsHold(e, size, favourites) ==
  \A g \in 0..Len(e.dispensed) :
    (size > 0 /\ (g + 1) * size <= Len(e.dispensed)) =>
      favourites \subseteq {e.dispensed[at] : at \in (g * size + 1)..((g + 1) * size)}

\* C10 as stated: with groupSize >= the number of enabled favourites every
\* row's base palette contains every enabled favourite, and so does every
\* aligned run of palette-length emissions of the row's dispenser.
C10_GroupIntegrity ==
  model.groupSize >= Len(favouritesOf(model)) =>
    \A x \in 1..Len(rowLog) :
      /\ Range(favouritesOf(model)) \subseteq Range(rowLog[x].palette)
      /\ GroupsHold(rowLog[x], Len(rowLog[x].palette), Range(favouritesOf(model)))

\* C10 amended: with groupSize >= the number of enabled favourites every
\* row's base palette contains every enabled favourite, and so does every
\* aligned run of as many emissions as the colour list fed to the dispenser
\* has entries (the base palette and its injected duplicates).
C10_GroupIntegrityOfList ==
  model.groupSize >= Len(favouritesOf(model)) =>
    \A x \in 1..Len(rowLog) :
      /\ Range(favouritesOf(model)) \subseteq Range(rowLog[x].palette)
      /\ GroupsHold(rowLog[x], Len(rowLog[x].colours), Range(favouritesOf(model)))

\* a palette cut below the enabled colours and carrying a duplicate, two
\* favourites in it, a complete group dispensed
C10_Witness ==
  /\ outcome = "rows"
  /\ Len(favouritesOf(model)) = 2
  /\ model.groupSize = 2
  /\ enabledCount(model.colourModel) > 2
  /\ Len(rowLog[1].colours) = 3
  /\ Len(rowLog[1].dispensed) >= 3

\* how often x occurs in a sequence
Count(items, x) == Cardinality({k \in DOMAIN items : items[k] = x})

\* two sequences holding the same elements the same number of times
SameMultiset(a, b) ==
  /\ Len(a) = Len(b)
  /\ \A x \in Range(a) \cup Range(b) : Count(a, x) = Count(b, x)

\* C11: for a non-empty colour list of length n every pull of the dispenser
\* yields a colour, and the emissions n*g .. n*g + n - 1 of every complete
\* group g hold exactly the multiset of colours of the list.
C11_GroupsArePermutations ==
  \A x \in 1..Len(rowLog) :
    LET e == rowLog[x]
        n == Len(e.colours)
    IN n > 0 =>
         /\ Len(e.dispensed) = model.columnCount + 1
         /\ \A g \in 0..Len(e.dispensed) :
              (g + 1) * n <= Len(e.dispensed) =>
                SameMultiset(SubSeq(e.dispensed, g * n + 1, (g + 1) * n), e.colours)

\* a list of three entries, one of them a duplicate, dispensed as a complete
\* group in another order than the list
C11_Witness ==
  /\ outcome = "rows"
  /\ Len(rowLog[1].colours) = 3
  /\ Cardinality(Range(rowLog[1].colours)) = 2
  /\ Len(rowLog[1].dispensed) >= 3
  /\ SubSeq(rowLog[1].dispensed, 1, 3) # rowLog[1].colours

\* C15: a colour list without any colour makes generateRows fail at the
\* first colour pulled, with no row returned and nothing dispensed; a colour
\* list with a colour in it never fails, and the call returns every row.
C15_FatalOnMissingColour ==
  outcome # "none" =>
    /\ Len(rowLog) >= 1
    /\ (rowLog[1].colours = <<>>) <=> (enabledCount(model.colourModel) = 0)
    /\ (outcome = "error") <=> (rowLog[1].colours = <<>>)
    /\ outcome = "error" =>
         /\ rows = <<>>
         /\ Len(rowLog) = 1
         /\ rowLog[1].dispensed = <<>>
         /\ rowLog[1].tiles = <<>>
    /\ outcome = "rows" =>
         /\ Len(rows) = model.rowCount
         /\ \A x \in 1..Len(rowLog) : rowLog[x].colours # <<>>

\* the generator failed on a record of several rows whose colours are all
\* disabled, after it had failed on the same colours before
C15_Witness ==
  /\ outcome = "error"
  /\ prev.outcome = "error"
  /\ model.rowCount > 1
  /\ Len(model.colourModel) > 0
  /\ rows = <<>>

\* the draw a Randomizer hands out at its position pos
DrawAt(r, pos) == nextInt([r EXCEPT !.pos = pos]).val

\* what is left of items before the k-th draw of a shuffle that started at r
RECURSIVE RemainderAt(_, _, _)
RemainderAt(items, r, k) ==
  IF k = 1 THEN items
  ELSE LET before == RemainderAt(items, r, k - 1)
       IN RemoveAt(before, DrawAt(r, r.pos + k - 2) % Len(before))

\* what C20 asks of s = shuffle(items) on a Randomizer r
ShuffleRule(items, r, s) ==
  LET n == Len(items)
  IN /\ n = 0 => (s.val = <<>> /\ s.rnd = r)
     /\ n >= 1 =>
          /\ s.rnd = [r EXCEPT !.pos = @ + n - 1]
          /\ Len(s.val) = n
          /\ \A k \in 1..(n - 1) :
               LET remainder == RemainderAt(items, r, k)
               IN /\ Len(remainder) = n - k + 1
                  /\ s.val[k] = remainder[(DrawAt(r, r.pos + k - 1) % Len(remainder)) + 1]
          /\ RemainderAt(items, r, n) = <<s.val[n]>>
     /\ SameMultiset(s.val, items)

\* the lists the latest call shuffled or could shuffle: the favourites, the
\* base palette and the colour list of every row
ShuffledLists ==
  {favouritesOf(model)}
  \cup {rowLog[x].palette : x \in 1..Len(rowLog)}
  \cup {rowLog[x].colours : x \in 1..Len(rowLog)}

\* C20: a shuffle of n >= 1 items takes n - 1 draws; its k-th item is the
\* one at index (k-th draw mod what is left) of what is left, its last item
\* the one left over; the result is a permutation of the items; a shuffle of
\* no item gives no item and takes no draw.  Checked on a new Randomizer of
\* the seed and on the Randomizer as the latest call left it.
C20_ShuffleDrawsWithoutReplacement ==
  \A items \in ShuffledLists :
    \A r \in {Randomizer(model.seed), rnd} :
      ShuffleRule(items, r, shuffle(items, r))

\* the generator shuffled a list of three or more colours with a colour in
\* it twice into another order, and an empty list of favourites
C20_Witness ==
  /\ outcome = "rows"
  /\ favouritesOf(model) = <<>>
  /\ \E x \in 1..Len(rowLog) :
       /\ Len(rowLog[x].colours) >= 3
       /\ Cardinality(Range(rowLog[x].colours)) < Len(rowLog[x].colours)
       /\ shuffle(rowLog[x].colours, rnd).val # rowLog[x].colours
       /\ shuffle(rowLog[x].colours, rnd).val[1] # rowLog[x].colours[1]
       /\ shuffle(rowLog[x].colours, rnd).rnd.pos = rnd.pos + Len(rowLog[x].colours) - 1

\* the Randomizer as it is when the x-th row of the latest call is generated
RECURSIVE RandomizerBefore(_)
RandomizerBefore(x) ==
  IF x = 1 THEN Randomizer(model.seed)
  ELSE generateRow(model, model.rowCount - x + 2, RandomizerBefore(x - 1)).rnd

\* what a row's colour list is made of when n duplicates are asked for: the
\* base palette and, with complexity > 0, the first n entries (or all there
\* are) of the weighted ordering drawn after one nextInt
InjectionRule(e, r, exact) ==
  LET ruled(base, d) ==
        LET n == (d.val % model.complexity) % model.groupSize
            sorted == weightedShuffle(base.val, colourWeightsOf(model), d.rnd).val
            added == Len(e.colours) - Len(e.palette)
        IN /\ added = IF exact THEN n ELSE Min(n, Len(base.val))
           /\ added < Min(model.complexity, model.groupSize)
           /\ model.complexity = 1 => added = 0
           /\ e.colours = base.val \o SubSeq(sorted, 1, added)
      based(base) ==
        /\ e.palette = base.val
        /\ \A c \in Range(e.colours) : Count(e.colours, c) <= 2
        /\ IF model.complexity > 0
           THEN ruled(base, nextInt(base.rnd))
           ELSE /\ e.colours = base.val
                /\ colourSupplier(model, r).rnd = base.rnd
  IN based(baseColourSupplier(model, r))

Distinct(colours) ==
  /\ Len(colours) >= 2
  /\ Cardinality(Range(colours)) = Len(colours)

\* no two neighbours of a sequence are equal
NoRepeat(items) == \A at \in 1..(Len(items) - 1) : items[at + 1] # items[at]

\* C30: for a row whose colour list has at least two colours and no
\* duplicate, no two colours dispensed one after the other are equal, inside
\* a group and across the seams, and with rotation 0 no two neighbouring
\* tiles of the row in the returned rows have the same colour.
C30_NoRepeatedNeighbours ==
  /\ \A x \in 1..Len(rowLog) :
       Distinct(rowLog[x].colours) => NoRepeat(rowLog[x].dispensed)
  /\ (outcome = "rows" /\ model.rotation = 0) =>
       \A j \in 1..Len(rows) :
         Distinct(LogOf(Cur, j).colours) => NoRepeat(Colours(rows[j]))

\* the unrotated top row of two or more, four tiles from two colours without
\* a duplicate: two seams are crossed
C30_Witness ==
  /\ outcome = "rows"
  /\ model.rotation = 0
  /\ model.complexity <= 1
  /\ model.columnCount = 4
  /\ Len(rows) >= 2
  /\ Distinct(LogOf(Cur, 1).colours)
  /\ Len(LogOf(Cur, 1).colours) = 2
  /\ Len(LogOf(Cur, 1).dispensed) = 5
  /\ Len(rows[1].columns) = 4

\* --------------------------------------------------- claims on the history
\* the state on top of a stack has the parameters the store holds
OnTop(stack) ==
  /\ stack # <<>>
  /\ stack[Len(stack)].params = model

\* C23: whenever no debounced push is pending, the state on top of the undo
\* stack is the current state of the store, whatever the order of edits,
\* expiries of the debounce timer, undos and redos has been.
C23_UndoTopIsCurrentState == pending = <<>> => OnTop(undoStack)

\* C24: when no push is pending and the undo stack holds more than one
\* state, undo loads the state below the top of the undo stack and moves the
\* top to the redo stack, and a redo right after it gives back the undo
\* stack, the redo stack and the loaded state there were before the undo.
C24_UndoRedoRoundTrip ==
  (pending = <<>> /\ canUndo /\ Len(undoStack) > 1) =>
    \A undone \in {undo(UndoManager)} :
      /\ undone.state.params = undoStack[Len(undoStack) - 1].params
      /\ undone.undoStack = SubSeq(undoStack, 1, Len(undoStack) - 1)
      /\ undone.redoStack = Append(redoStack, undoStack[Len(undoStack)])
      /\ \A redone \in {redo(undone)} :
           /\ redone.undoStack = undoStack
           /\ redone.redoStack = redoStack
           /\ redone.state.params = model

\* the refs of the objects on a stack
RefsOn(stack) == {stack[k].ref : k \in 1..Len(stack)}

\* C25: the debounced push puts a state on the undo stack that is on neither
\* stack (it was not loaded by undo or redo) and leaves the redo stack empty
\* and canRedo false; canRedo is true exactly when the redo stack holds a
\* state, and the redo stack only gets one by undo; undo and redo make no
\* call of pushUndo for the state they load.
C25_PushDiscardsRedo ==
  /\ canRedo <=> redoStack # <<>>
  /\ prev.op = "push" =>
       /\ redoStack = <<>>
       /\ ~canRedo
       /\ undoStack # <<>>
       /\ undoStack[Len(undoStack)] = prev.manager.pending[1]
       /\ prev.manager.pending[1].ref
            \notin RefsOn(prev.manager.undoStack) \cup RefsOn(prev.manager.redoStack)
  /\ (prev.manager.redoStack = <<>> /\ redoStack # <<>>) => prev.op = "undo"
  /\ prev.op \in {"undo", "redo"} => pending = prev.manager.pending

\* the push of an edit made after two undos has discarded the two states
\* that could be redone
C25_Witness ==
  /\ prev.op = "push"
  /\ prev.manager.canRedo
  /\ Len(prev.manager.redoStack) = 2
  /\ prev.manager.state = prev.manager.pending[1]
  /\ redoStack = <<>>

\* C26: the undo stack never holds more than UndoLimit states (1000 in the
\* code), and a push gives the newest UndoLimit states of the stack with the
\* pushed state after it, in their order.
C26_BoundedUndoHistory ==
  /\ Len(undoStack) <= UndoLimit
  /\ prev.op = "push" =>
       \A pushed \in {Append(prev.manager.undoStack, prev.manager.pending[1])} :
         undoStack = SubSeq(pushed, Max(1, Len(pushed) - UndoLimit + 1), Len(pushed))

\* a push on a full undo stack has discarded the oldest state
C26_Witness ==
  /\ prev.op = "push"
  /\ Len(prev.manager.undoStack) = UndoLimit
  /\ Len(undoStack) = UndoLimit
  /\ undoStack[1] = prev.manager.undoStack[2]
  /\ undoStack[1] # prev.manager.undoStack[1]

\* ---------------------------------------------------- claims on the holes
\* a region with its start and end put in order by min and max
Normalised(region) ==
  [startRow |-> Min(region.startRow, region.endRow),
   startColumn |-> Min(region.startColumn, region.endColumn),
   endRow |-> Max(region.startRow, region.endRow),
   endColumn |-> Max(region.startColumn, region.endColumn)]

\* C12: the rectangle the layout computes for a hole is the rectangle it
\* computes for the min/max-normalised region, whatever the order of the
\* region's start and end and whatever the offset, orientation and steps.
C12_RegionNormalisedInGeometry ==
  \A L \in {LayoutOf(model, rows, magnification)} :
    \A k \in 1..Len(model.holes) :
      locateHole(L, model.holes[k]) = locateHole(L, Normalised(model.holes[k]))

\* C13: a cell is in a hole exactly when it is in the min/max-normalised
\* rectangle of the region, and a remove-hole action at such a cell removes
\* the region.
C13_RegionNormalisedInMembership ==
  \A k \in 1..Len(model.holes) :
    \A cell \in CellsOf(model) :
      LET hole == model.holes[k]
          inside == _isInHole(cell[1], cell[2], Normalised(hole))
          removed == paramsReducer(model, [type |-> "remove-hole",
                                           row |-> cell[1], column |-> cell[2]])
      IN /\ _isInHole(cell[1], cell[2], hole) <=> inside
         /\ isInHole(cell[1], cell[2], [model EXCEPT !.holes = <<hole>>]) <=> inside
         /\ inside => hole \notin Range(removed.holes)

StartOf(L, r) == IF L.model.orientation = "horizontal" THEN left(r) ELSE top(r)
EndOf(L, r) == IF L.model.orientation = "horizontal" THEN right(r) ELSE bottom(r)

\* the earliest start of a located rectangle: the grout for an inside
\* rectangle, the canvas origin for an outside one
FloorOf(L, inside) == IF inside THEN groutPx(L) ELSE 0

\* C22: with offset > 1 the rectangle locateCell gives for a cell of the
\* grid, inside or outside, starts at the grout (inside) or at the origin
\* (outside) at the earliest along the stepping axis and has a positive width
\* and height; when the step would put its start earlier it starts exactly
\* there, ends where the stepped rectangle ends and is shorter than it.
C22_OriginClipping ==
  \A L \in {LayoutOf(model, rows, magnification)} :
    model.offset > 1 =>
      \A cell \in CellsOf(model), inside \in BOOLEAN :
        \A located \in {locateCell(L, cell[1], cell[2], inside)},
           stepped \in {steppedCell(L, cell[1], cell[2], inside)} :
          /\ located # NullRect
          /\ StartOf(L, located) >= FloorOf(L, inside)
          /\ located.width > 0
          /\ located.height > 0
          /\ StartOf(L, stepped) < FloorOf(L, inside) =>
               /\ StartOf(L, located) = FloorOf(L, inside)
               /\ EndOf(L, located) = EndOf(L, stepped)
               /\ EndOf(L, located) - StartOf(L, located)
                    < EndOf(L, stepped) - StartOf(L, stepped)

\* a layout stepping by thirds was rendered whose step puts an inside and an
\* outside rectangle before the origin by different amounts
C22_Witness ==
  /\ model.offset > 2
  /\ ~model.stepAlternate
  /\ tileMap # <<>>
  /\ \E L \in {LayoutOf(model, rows, magnification)} :
       \E A \in CellsOf(model), B \in CellsOf(model) :
         /\ StartOf(L, steppedCell(L, A[1], A[2], TRUE)) < 0
         /\ StartOf(L, steppedCell(L, B[1], B[2], FALSE))
              < StartOf(L, steppedCell(L, A[1], A[2], FALSE))
         /\ StartOf(L, steppedCell(L, A[1], A[2], FALSE)) < 0
         /\ locateCell(L, A[1], A[2], TRUE) # locateCell(L, B[1], B[2], TRUE)

\* two rectangles without a common inner point
DisjointInteriors(a, b) ==
  \/ right(a) <= left(b)
  \/ right(b) <= left(a)
  \/ bottom(a) <= top(b)
  \/ bottom(b) <= top(a)

\* two cells on one line of the stepping: the same row of a horizontal
\* layout, the same column of a vertical one
SameLine(m, A, B) ==
  IF m.orientation = "horizontal" THEN A[1] = B[1] ELSE A[2] = B[2]

\* how far apart two cells of one line start when neither is stepped or
\* both are stepped alike: a cell and a grout for every place between them
PitchBetween(L, A, B) ==
  IF L.model.orientation = "horizontal"
  THEN (B[2] - A[2]) * (cellSize(L).width + groutPx(L))
  ELSE (B[1] - A[1]) * (cellSize(L).height + groutPx(L))

\* C29: the inside rectangles locate gives for two different cells of the
\* grid have no inner point in common, and two cells of the same row
\* (horizontal) or column (vertical) are stepped by the same amount: after
\* the step they start as far apart as the cells between them are long.
C29_TilesNeverOverlap ==
  \A L \in {LayoutOf(model, rows, magnification)} :
    \A A \in CellsOf(model), B \in CellsOf(model) :
      A # B =>
        /\ locate(L, A[1], A[2], A[1], A[2], TRUE) # NullRect
        /\ DisjointInteriors(locate(L, A[1], A[2], A[1], A[2], TRUE),
                             locate(L, B[1], B[2], B[1], B[2], TRUE))
        /\ SameLine(model, A, B) =>
             /\ stepOf(L, A[1], A[2]) = stepOf(L, B[1], B[2])
             /\ StartOf(L, steppedCell(L, B[1], B[2], TRUE))
                  - StartOf(L, steppedCell(L, A[1], A[2], TRUE))
                = PitchBetween(L, A, B)

\* a stepped layout was rendered with two neighbours of one line stepped by
\* the same amount, the grout between them, and a cell of the next line
\* stepped otherwise
C29_Witness ==
  /\ model.offset > 1
  /\ tileMap # <<>>
  /\ \E L \in {LayoutOf(model, rows, magnification)} :
       \E A \in CellsOf(model), B \in CellsOf(model), C \in CellsOf(model) :
         /\ A # B
         /\ SameLine(model, A, B)
         /\ stepOf(L, A[1], A[2]) # 0
         /\ ~SameLine(model, A, C)
         /\ stepOf(L, C[1], C[2]) # stepOf(L, A[1], A[2])
         /\ \/ right(locate(L, A[1], A[2], A[1], A[2], TRUE)) + groutPx(L)
                 = left(locate(L, B[1], B[2], B[1], B[2], TRUE))
            \/ bottom(locate(L, A[1], A[2], A[1], A[2], TRUE)) + groutPx(L)
                 = top(locate(L, B[1], B[2], B[1], B[2], TRUE))

\* the region an 'add-hole' action carries
RegionOf(action) ==
  [startRow |-> action.startRow, startColumn |-> action.startColumn,
   endRow |-> action.endRow, endColumn |-> action.endColumn]

\* C28: every hole of the model has startRow <= endRow and startColumn <=
\* endColumn, and so has the 'add-hole' action of a selection from any tile
\* that can be hit to any other, in whatever direction it is dragged; the
\* reducer returns the holes there were, in their order, with the region of
\* the action after them.
C28_GestureHolesNormalised ==
  /\ \A k \in 1..Len(model.holes) : model.holes[k] = Normalised(model.holes[k])
  /\ \A anchor \in Hits(tileMap), head \in Hits(tileMap) :
       \A action \in {addHoleOf(anchor, head)} :
         /\ action.startRow <= action.endRow
         /\ action.startColumn <= action.endColumn
         /\ {action.startRow, action.endRow} = {anchor.row, head.row}
         /\ {action.startColumn, action.endColumn} = {anchor.key, head.key}
         /\ \A after \in {paramsReducer(model, action).holes} :
              /\ Len(after) = Len(model.holes) + 1
              /\ SubSeq(after, 1, Len(model.holes)) = model.holes
              /\ after[Len(after)] = RegionOf(action)

\* a selection has made a hole over more than one row and column, and
\* another one can be dragged from the right bottom to the left top
C28_Witness ==
  /\ Len(model.holes) = 1
  /\ model.holes[1].startRow < model.holes[1].endRow
  /\ model.holes[1].startColumn < model.holes[1].endColumn
  /\ \E anchor \in Hits(tileMap), head \in Hits(tileMap) :
       /\ anchor.row > head.row
       /\ anchor.key > head.key
       /\ Len(paramsReducer(model, addHoleOf(anchor, head)).holes) = 2

\* the rectangles of a layout intersect is asked about: every area between
\* two cells as the subject, the holes and the crop rectangles of the state
\* as the rectangle cut off
Areas(L) ==
  {locate(L, A[1], A[2], B[1], B[2], TRUE) : A \in CellsOf(L.model), B \in CellsOf(L.model)}

Cutters(L) ==
  {locateHole(L, L.model.holes[k]) : k \in 1..Len(L.model.holes)}
  \cup {L.canvasCrop.rects[k] : k \in 1..Len(L.canvasCrop.rects)}

\* O contains the rectangle R, edges included
ContainsRect(O, R) ==
  /\ left(O) <= left(R)
  /\ right(R) <= right(O)
  /\ top(O) <= top(R)
  /\ bottom(R) <= bottom(O)

\* which of the four edge midpoints of R the rectangle O contains
MidpointsIn(O, R) ==
  [left |-> contains(O, leftMiddle(R)), top |-> contains(O, topMiddle(R)),
   right |-> contains(O, rightMiddle(R)), bottom |-> contains(O, bottomMiddle(R))]

\* what C17 asks of X = R.intersect(O), e being the trimmed edges
SubtractionOutcome(R, O, X, e, mid) ==
  /\ (X = NullRect) <=> (e.left >= e.right \/ e.top >= e.bottom)
  /\ ContainsRect(O, R) => X = NullRect
  /\ (X = R) <=>
       (X # NullRect /\ e = [left |-> left(R), top |-> top(R),
                             right |-> right(R), bottom |-> bottom(R)])
  /\ (~mid.left /\ ~mid.top /\ ~mid.right /\ ~mid.bottom) => X = R
  /\ X # NullRect =>
       /\ X.width > 0 /\ X.height > 0
       /\ ContainsRect(R, X)
       /\ X = TileRect(e.left, e.top, e.right - e.left, e.bottom - e.top)

\* C17: R.intersect(O) is null when the trimmed extent is empty, as it is
\* when O contains all of R; it is R itself when no edge was trimmed, as
\* when O contains none of the edge midpoints of R; otherwise it is the
\* rectangle of the trimmed edges, which lies within R.
C17_SubtractionOutcome ==
  \A L \in {LayoutOf(model, rows, magnification)} :
    \A R \in Areas(L), O \in Cutters(L) :
      SubtractionOutcome(R, O, intersect(R, O), trimmed(R, O), MidpointsIn(O, R))

\* a hole was cut off three areas of the layout: one it contains, which gives
\* null, one it does not touch, which is returned as it is, and one it
\* overlaps, which gives a smaller rectangle
C17_Witness ==
  /\ Len(model.holes) = 1
  /\ model.offset > 1
  /\ \E L \in {LayoutOf(model, rows, magnification)} :
       \E O \in {locateHole(L, model.holes[1])} :
         /\ \E R \in Areas(L) : R # O /\ intersect(R, O) = NullRect
         /\ \E R \in Areas(L) : intersect(R, O) = R
         /\ \E R \in Areas(L) : intersect(R, O) \notin {NullRect, R}

\* what C18 asks of the trimmed edges e of R.intersect(O)
EdgeTrimRule(R, O, e, mid) ==
  /\ e.left = IF mid.left /\ mid.top /\ mid.bottom THEN Max(left(R), right(O)) ELSE left(R)
  /\ e.top = IF mid.top /\ mid.left /\ mid.right THEN Max(top(R), bottom(O)) ELSE top(R)
  /\ e.right = IF mid.right /\ mid.top /\ mid.bottom THEN Min(right(R), left(O)) ELSE right(R)
  /\ e.bottom = IF mid.bottom /\ mid.left /\ mid.right THEN Min(bottom(R), top(O)) ELSE bottom(R)

\* C18: R.intersect(O) moves an edge of R inward, the left one to
\* max(R.left, O.right), the top one to max(R.top, O.bottom), the right one
\* to min(R.right, O.left), the bottom one to min(R.bottom, O.top), exactly
\* when O contains the midpoint of that edge and of the two edges next to
\* it; every other edge of the result is the edge of R.
C18_EdgeTrimRule ==
  \A L \in {LayoutOf(model, rows, magnification)} :
    \A R \in Areas(L), O \in Cutters(L) :
      /\ EdgeTrimRule(R, O, trimmed(R, O), MidpointsIn(O, R))
      /\ \A X \in {intersect(R, O)} \ {NullRect} :
           EdgeTrimRule(R, O, [left |-> left(X), top |-> top(X),
                               right |-> right(X), bottom |-> bottom(X)], MidpointsIn(O, R))

\* a hole overlaps an area at a corner, containing the midpoints of two
\* adjacent edges only, and the area is returned untrimmed; it contains
\* three midpoints of another area, and one edge of that is moved
C18_Witness ==
  /\ Len(model.holes) = 1
  /\ \E L \in {LayoutOf(model, rows, magnification)} :
       \E O \in {locateHole(L, model.holes[1])} :
         /\ \E R \in Areas(L) :
              /\ Cardinality({f \in {"left", "top", "right", "bottom"} : MidpointsIn(O, R)[f]}) = 2
              /\ MidpointsIn(O, R).left # MidpointsIn(O, R).right
              /\ MidpointsIn(O, R).top # MidpointsIn(O, R).bottom
              /\ intersect(R, O) = R
         /\ \E R \in Areas(L) :
              /\ Cardinality({f \in {"left", "top", "right", "bottom"} : MidpointsIn(O, R)[f]}) = 3
              /\ intersect(R, O) \notin {NullRect, R}

\* the rectangle locate(row.key, tile.key) of a tile, before any cut
Located(L, tile) == locate(L, tile.row, tile.key, tile.row, tile.key, TRUE)

\* C4: intersectWithHoles of the located rectangle of a tile whose row and
\* column lie inside the range of a hole is null.
C4_HoleExclusionInside ==
  \A tile \in DOMAIN tileMap :
    isInHole(tile.row, tile.key, model) => tileMap[tile] = NullRect

C19_GroupSizeBound == model.groupSize <= enabledCount(model.colourModel)

\* the fields of the record an action is there to change
Targets(params, action) ==
  CASE action.type = "set" -> {action.param}
    [] action.type = "set-colour-palette" -> DOMAIN action.palette
    [] action.type = "load" -> DOMAIN params
    [] action.type \in {"add-hole", "remove-hole"} -> {"holes"}

====
